---------------------------- MODULE Spec2Model ----------------------------
(***************************************************************************)
(* Model of the asynchronous edit pipeline (edit_main.py) and the virtual  *)
(* try-on pipeline (vton_main.py) together with the storage wrapper        *)
(* (src/s3_uploader.py) they share.                                        *)
(*                                                                         *)
(* Strings.  A Python str is modelled as a sequence of atoms.  An atom is  *)
(* a run of characters that no string operation of the program ever cuts: *)
(* the separators "/", "_" and "." are atoms of their own, every digit is  *)
(* an atom, and words are cut so that no atom overlaps another ("female"   *)
(* is <<"fe","male">>, "edited" is <<"edit","ed">>, "images" is            *)
(* <<"image","s">>).  With that alphabet startswith, endswith, `in`,       *)
(* split, join, replace and os.path.splitext act on the atom sequence      *)
(* exactly as they act on the characters.                                  *)
(***************************************************************************)
EXTENDS Integers, Sequences, FiniteSets, TLC

\* ------------------------------------------------------------------------
\* Bounds of the model
\* ------------------------------------------------------------------------
MaxPrompts == 3

MaxPersons == 2

MaxExisting == 1

\* persons plus clothes in the bucket of a run of the VTON driver where
\* every answer of storage and of the backend may be a failure
MaxInputs == 2

\* successful generations in a run where storage and the backend may fail
MaxGenOk == 1

\* ------------------------------------------------------------------------
\* Python string primitives on atom sequences
\* ------------------------------------------------------------------------
\* Python None / the empty string where a str is expected (both are falsy).
None == << >>

Truthy(s) == s # None

\* f"{x}": None is rendered as the text None.
Fmt(x) == IF x = None THEN <<"None">> ELSE x

\* The string operators take their argument by value, as a Python call does:
\* `\E s \in {str}` and `{... : s \in {str}}` bind s to the value of str.
Only(S) == CHOOSE x \in S : TRUE

StartsWith(str, p) ==
    \E s \in {str} : Len(p) <= Len(s) /\ SubSeq(s, 1, Len(p)) = p

EndsWith(str, p) ==
    \E s \in {str} : Len(p) <= Len(s) /\ SubSeq(s, Len(s) - Len(p) + 1, Len(s)) = p

\* needle in str
Contains(str, needle) ==
    \E s \in {str} :
        \E i \in 0..(Len(s) - Len(needle)) : SubSeq(s, i + 1, i + Len(needle)) = needle

Min(S) == CHOOSE x \in S : \A y \in S : x <= y

Max(S) == CHOOSE x \in S : \A y \in S : y <= x

\* s.split(sep) for a one-character separator: the pieces between successive
\* separators, cut(k) being the position of the k-th one
SplitAt(s, hits) ==
    LET cut(k) == IF k = 0 THEN 0
                  ELSE IF k > Cardinality(hits) THEN Len(s) + 1
                  ELSE CHOOSE h \in hits : Cardinality({g \in hits : g <= h}) = k
    IN  [k \in 1..(Cardinality(hits) + 1) |-> SubSeq(s, cut(k - 1) + 1, cut(k) - 1)]

Split(str, sep) ==
    Only({Only({SplitAt(s, hits) : hits \in {{i \in 1..Len(s) : s[i] = sep}}})
              : s \in {str}})

\* sep.join(parts)
RECURSIVE Join(_, _)
Join(parts, sep) ==
    IF Len(parts) = 0 THEN << >>
    ELSE IF Len(parts) = 1 THEN parts[1]
    ELSE parts[1] \o <<sep>> \o Join(Tail(parts), sep)

\* True when x is one of the elements of the list parts (x in parts)
InList(x, parts) == \E i \in 1..Len(parts) : parts[i] = x

\* os.path.basename(p)
BasenameOf(p) ==
    LET hits == {i \in 1..Len(p) : p[i] = "/"}
    IN  IF hits = {} THEN p ELSE SubSeq(p, Max(hits) + 1, Len(p))

Basename(path) == Only({BasenameOf(p) : p \in {path}})

\* os.path.splitext(p)[0]: cut at the last dot of the last path component,
\* unless only dots precede it in that component.
SplitextRootOf(p) ==
    LET slashes == {i \in 1..Len(p) : p[i] = "/"}
        base    == IF slashes = {} THEN 0 ELSE Max(slashes)
        dots    == {i \in (base + 1)..Len(p) : p[i] = "."}
    IN  IF dots = {} THEN p
        ELSE LET d == Max(dots)
             IN  IF \E j \in (base + 1)..(d - 1) : p[j] # "."
                 THEN SubSeq(p, 1, d - 1)
                 ELSE p

SplitextRoot(path) == Only({SplitextRootOf(p) : p \in {path}})

\* s.replace(old, new): every non-overlapping occurrence, left to right
RECURSIVE Replace(_, _, _)
Replace(s, old, new) ==
    IF Len(s) < Len(old) \/ Len(old) = 0 THEN s
    ELSE IF SubSeq(s, 1, Len(old)) = old
         THEN new \o Replace(SubSeq(s, Len(old) + 1, Len(s)), old, new)
         ELSE <<s[1]>> \o Replace(Tail(s), old, new)

\* ------------------------------------------------------------------------
\* edit_main.py: constants, key parser, target key
\* ------------------------------------------------------------------------
EDIT_PROMPTS_PREFIX == <<"dataset", "/", "edit", "_", "prompts", "/">>

SOURCE_IMAGES_BASE_FEMALE ==
    <<"dataset", "/", "fe", "male", "/", "fe", "male", "/", "image", "s", "/">>

SOURCE_IMAGES_BASE_MALE ==
    <<"dataset", "/", "male", "/", "male", "/", "image", "s", "/">>

OUTPUT_BASE == <<"edit", "ed", "_", "image", "s", "/">>

DotTxt == <<".", "txt">>

DotPng == <<".", "png">>

FEMALE == <<"fe", "male">>

MALE == <<"male">>

\* The parser's None result.
NoInfo == [ok |-> FALSE]

EditParse(key) ==
    IF ~StartsWith(key, EDIT_PROMPTS_PREFIX) THEN NoInfo
    ELSE
    LET rel_path == SubSeq(key, Len(EDIT_PROMPTS_PREFIX) + 1, Len(key))
        parts    == Split(rel_path, "/")
    IN  IF Len(parts) < 3 THEN NoInfo
        ELSE
        LET difficulty     == parts[1]
            gender_dir     == parts[2]
            possible_part  == parts[Len(parts) - 1]
            partition_name == IF Contains(possible_part, <<"partition">>)
                              THEN possible_part
                              ELSE <<"unknown", "_", "partition">>
            filename       == parts[Len(parts)]
        IN  IF ~EndsWith(filename, DotTxt) THEN NoInfo
            ELSE
            LET stem      == SplitextRoot(filename)
                subparts  == Split(stem, "_")
                image_id  == IF ~Contains(stem, <<"_">>) THEN stem ELSE subparts[1]
                remainder == IF ~Contains(stem, <<"_">>) THEN <<"edit">>
                             ELSE Join(Tail(subparts), "_")
            IN  IF Contains(gender_dir, FEMALE)
                THEN [ok |-> TRUE, difficulty |-> difficulty, gender |-> FEMALE,
                      image_id |-> image_id, partition |-> partition_name,
                      remainder |-> remainder, stem |-> stem]
                ELSE IF Contains(gender_dir, MALE)
                THEN [ok |-> TRUE, difficulty |-> difficulty, gender |-> MALE,
                      image_id |-> image_id, partition |-> partition_name,
                      remainder |-> remainder, stem |-> stem]
                ELSE NoInfo

\* a target key named after the prompt file's stem
TargetFromStem(info) ==
    OUTPUT_BASE \o info.difficulty \o <<"/">> \o info.gender \o <<"/">>
        \o info.stem \o DotPng

\* target_key of edit_main.main for a parsed prompt key
EditTargetKey(info) ==
    LET new_filename_stem ==
            info.image_id \o <<"_">> \o info.partition \o <<"_">> \o info.remainder
    IN  OUTPUT_BASE \o info.difficulty \o <<"/">> \o info.gender \o <<"/">>
            \o new_filename_stem \o DotPng

\* source_img_key of process_prompt
EditSourceImgKey(info) ==
    IF info.gender = FEMALE
    THEN SOURCE_IMAGES_BASE_FEMALE \o info.image_id \o DotPng
    ELSE SOURCE_IMAGES_BASE_MALE \o info.image_id \o DotPng

\* ------------------------------------------------------------------------
\* vton_main.py: constants, key parser, output keys
\* ------------------------------------------------------------------------
EDITED_IMAGES_BASE == <<"edit", "ed", "_", "image", "s", "/">>

CLOTHES_BASE == <<"dataset", "/", "clothes", "/">>

OUTPUT_ULTIMATE_BASE == <<"dataset", "_", "ultimate", "/">>

RECURSIVE VtonPartitionScan(_, _)
\* the for/enumerate loop of parse_s3_key_info, from index i (1-based)
VtonPartitionScan(subparts, i) ==
    IF i > Len(subparts) THEN <<"unknown">>
    ELSE IF subparts[i] = <<"partition">> /\ i + 1 <= Len(subparts)
         THEN <<"partition", "_">> \o subparts[i + 1]
         ELSE VtonPartitionScan(subparts, i + 1)

VtonParse(key) ==
    LET parts == Split(key, "/")
    IN  IF Len(parts) < 3 THEN NoInfo
        ELSE
        LET filename == parts[Len(parts)]
        IN  IF ~EndsWith(filename, DotPng) THEN NoInfo
            ELSE
            LET stem == SplitextRoot(filename)
                partition_name ==
                    IF Contains(stem, <<"partition", "_">>)
                    THEN VtonPartitionScan(Split(stem, "_"), 1)
                    ELSE <<"unknown">>
            IN  [ok |-> TRUE, difficulty |-> parts[2], gender |-> parts[3],
                 filename |-> filename, stem |-> stem,
                 partition |-> partition_name]


\* ------------------------------------------------------------------------
\* src/s3_uploader.py: AsyncUploader.  resp is what the storage service
\* answers: "ok", "empty" (an object of zero bytes) or "error" (the client
\* raises).  Each method yields [exc, value]: exc says whether an exception
\* leaves the method.
\* ------------------------------------------------------------------------
download_image(resp) ==
    IF resp = "error"
    THEN [exc |-> FALSE, value |-> "None"]      \* except Exception: return None
    ELSE [exc |-> FALSE, value |-> "img"]

download_text(resp) ==
    IF resp = "error"
    THEN [exc |-> FALSE, value |-> "None"]      \* except Exception: return None
    ELSE IF resp = "empty"
    THEN [exc |-> FALSE, value |-> ""]
    ELSE [exc |-> FALSE, value |-> "text"]

\* upload_edited_image without its try/except: the client's error leaves it
upload_unguarded(resp) ==
    IF resp = "error"
    THEN [exc |-> TRUE, value |-> "None"]
    ELSE [exc |-> FALSE, value |-> "None"]

upload_edited_image(resp) ==
    IF resp = "error"
    THEN [exc |-> FALSE, value |-> "None"]      \* except Exception: print(...)
    ELSE [exc |-> FALSE, value |-> "None"]

\* `not prompt_text` / `if not prompt_text`
FalsyText(t) == t = "None" \/ t = ""

ImageResponses == {"ok", "error"}

TextResponses == {"ok", "empty", "error"}

PutResponses == {"ok", "error"}

\* what a list_objects_v2 / head_object call may do: answer, or raise
ListResponses == {"ok", "error"}

\* check_exists: head_object inside try / bare except
check_exists(resp, stored) == IF resp = "error" THEN FALSE ELSE stored

\* get_existing_prompts: the listing loop inside try / except Exception; on
\* an error it returns the set it collected before the error
get_existing_prompts(resp, collected, stored) ==
    IF resp = "error" THEN collected ELSE stored

\* generator.generate run by asyncio.to_thread: returns an image or raises.
\* The backend is whatever object the driver is given.  gpu_worker passes the
\* keyword cloth_image, which ImageGenerator.generate of src/generator.py does
\* not accept: with that class every call of gpu_worker takes "raise".
GenResponses == {"ok", "raise"}

\* what a print call may do: write, or raise OSError on a closed stdout
StdoutResponses == {"ok", "error"}

\* ------------------------------------------------------------------------
\* The bucket: the keys the storage service can hold, in the order
\* list_objects_v2 returns them (ascending byte order of the key).
\* ------------------------------------------------------------------------
EditPromptKey(rel) == EDIT_PROMPTS_PREFIX \o rel

EditPromptUniverse ==
    << EditPromptKey(<<"easy", "/", "edit", "_", "fe", "male", "/", "5", ".", "txt">>),
       EditPromptKey(<<"easy", "/", "edit", "_", "fe", "male", "/", "partition", "_", "0",
                       "/", "1", "0", "4", "4", "_", "3", "_", "edit", ".", "txt">>),
       EditPromptKey(<<"easy", "/", "edit", "_", "male", "/", "partition", "_", "0",
                       "/", "7", "_", "0", "_", "edit", ".", "txt">>),
       EditPromptKey(<<"easy", "/", "edit", "_", "other", "/", "partition", "_", "0",
                       "/", "9", "_", "1", "_", "edit", ".", "txt">>),
       EditPromptKey(<<"hard", "/", "edit", "_", "fe", "male", "/", "partition", "_", "1",
                       "/", "1", "0", "4", "4", "_", "3", "_", "edit", ".", "txt">>),
       EditPromptKey(<<"hard", "/", "edit", "_", "fe", "male", "/", "partition", "_", "1",
                       "/", "readme", ".", "md">>) >>

\* Prompts off the usual layout: a stem with the default remainder spelled
\* out, a directory below the partition directory, a fourth difficulty.
OffLayoutPrompts ==
    << EditPromptKey(<<"easy", "/", "edit", "_", "fe", "male", "/", "5", "_", "edit",
                       ".", "txt">>),
       EditPromptKey(<<"easy", "/", "edit", "_", "fe", "male", "/", "partition", "_", "0",
                       "/", "extra", "/", "1", "_", "0", ".", "txt">>),
       EditPromptKey(<<"expert", "/", "edit", "_", "fe", "male", "/", "partition", "_", "0",
                       "/", "1", "_", "0", ".", "txt">>) >>

PersonKey(rel) == EDITED_IMAGES_BASE \o rel

\* Edited images: the outputs of the edit driver and the inputs of the VTON driver.
EditedUniverse ==
    << PersonKey(<<"easy", "/", "fe", "male", "/", "1", "0", "4", "4", "_", "partition",
                   "_", "0", "_", "3", "_", "edit", ".", "png">>),
       PersonKey(<<"easy", "/", "fe", "male", "/", "5", "_", "unknown", "_", "partition",
                   "_", "edit", ".", "png">>),
       PersonKey(<<"easy", "/", "fe", "male", "/", "8", "_", "partition", "_", "1", "_",
                   "2", "_", "edit", ".", "png">>),
       PersonKey(<<"easy", "/", "fe", "male", "/", "notes", ".", "txt">>),
       PersonKey(<<"easy", "/", "male", "/", "7", "_", "partition", "_", "0", "_", "0",
                   "_", "edit", ".", "png">>),
       PersonKey(<<"hard", "/", "fe", "male", "/", "1", "0", "4", "4", "_", "partition",
                   "_", "1", "_", "3", "_", "edit", ".", "png">>) >>

\* Edited images of a tenth partition and of a fourth difficulty.
OffLayoutEdited ==
    << PersonKey(<<"easy", "/", "fe", "male", "/", "9", "_", "partition", "_", "1", "0",
                   "_", "0", "_", "edit", ".", "png">>),
       PersonKey(<<"expert", "/", "fe", "male", "/", "1", "_", "partition", "_", "0", "_",
                   "0", ".", "png">>) >>

Digit(d) == <<"0", "1", "2", "3", "4", "5", "6", "7", "8", "9">>[d + 1]

\* edited_images/easy/female/{n}_partition_0_0_edit.png for a two-digit n
NumberedPersonKey(n) ==
    PersonKey(<<"easy", "/", "fe", "male", "/", Digit(n \div 10), Digit(n % 10), "_",
                "partition", "_", "0", "_", "0", "_", "edit", ".", "png">>)

ClothKey(rel) == CLOTHES_BASE \o rel

ClothesUniverse ==
    << ClothKey(<<"fe", "male", "/", "image", "s", "/", "1", ".", "png">>),
       ClothKey(<<"fe", "male", "/", "image", "s", "/", "2", ".", "jpg">>),
       ClothKey(<<"fe", "male", "/", "image", "s", "/", "3", ".", "txt">>) >>

Range(f) == {f[i] : i \in DOMAIN f}

\* s3 paginator over a prefix: every key of the bucket under the prefix, in
\* listing order
ListKeys(universe, bkt, prefix) ==
    SelectSeq(universe, LAMBDA k : k \in bkt /\ StartsWith(k, prefix))


\* ------------------------------------------------------------------------
\* State
\* ------------------------------------------------------------------------
VARIABLES
    driver,            \* which program runs: "edit" (edit_main) or "vton" (vton_main)
    bucket,            \* the keys present in storage when the run starts
    difficulty_target, \* main's filter arguments (None when not given)
    gender_target,
    partition_target,
    parse,             \* one call of a key parser: [key, parts, out]
    sem,               \* asyncio.Semaphore._value of the gate
    e_pc,              \* edit_main.main: "start", "gather", "returned", "raised"
                       \*   (gather re-raised), "list_raised" (a listing raised)
    existing_outputs,  \* edit_main.main: the resume index
    prompt_files,      \* edit_main.main: the prompt keys kept by the scan
    tasks,             \* edit_main.main: the process_prompt coroutines, in order
    total_tasks,
    skipped_count,
    env,               \* what storage and the backend may answer in this run
    v_pc,              \* vton_main.main: "start", "pipeline", "returned", "raised"
    clothes_list,      \* vton_main.main: the cloth keys listed
    person_files,      \* vton_main.main: the person keys listed (sorted by the producer)
    queue,             \* asyncio.Queue(maxsize=10): its items, oldest first
    p_pc,              \* download_worker: "none", "new", "downloading", "putting",
                       \*   "put_sentinel", "done", "raised", "cancelled"
    p_idx,             \* download_worker: position of person_key in person_files
    p_pkg,             \* download_worker: the cloth picked / the package being put
    c_pc,              \* gpu_worker: "none", "new", "get", "generating", "wait_gate",
                       \*   "drain", "done", "raised", "cancelled"
    c_pkg,             \* gpu_worker: the package dequeued last
    c_seq,             \* gpu_worker: number of upload triplets created so far
    ups,               \* every upload task created: id -> [key, state]
    upload_tasks,      \* gpu_worker: the ids in its tracking set
    c_gather,          \* gpu_worker: the ids handed to the final asyncio.gather
    jsonl_buffer,      \* the manifest entries, in append order
    manifest,          \* the manifest blobs put to storage by main
    fetch_log,         \* history: what the three downloads of each person returned
    enqueued,          \* history: person_key of every package put on the queue
    gen_log            \* history: every generator.generate call of gpu_worker

editVars == <<e_pc, existing_outputs, prompt_files, tasks, total_tasks, skipped_count>>

inputVars == <<driver, bucket, difficulty_target, gender_target, partition_target, parse>>

envVars == <<inputVars, env>>

vtonVars == <<v_pc, clothes_list, person_files, queue, p_pc, p_idx, p_pkg, c_pc, c_pkg,
              c_seq, ups, upload_tasks, c_gather, jsonl_buffer, manifest, fetch_log,
              enqueued, gen_log>>

\* the capacity asyncio.Semaphore is created with
GateCapacity == 1

\* ------------------------------------------------------------------------
\* edit_main.main, up to the await of asyncio.gather
\* ------------------------------------------------------------------------
\* the resume scan over the whole output base, whatever the filters
ScanEverything(dt, gt) == << OUTPUT_BASE >>

EditOutputScanPrefixes(dt, gt) ==
    IF Truthy(dt) /\ Truthy(gt) THEN << OUTPUT_BASE \o dt \o <<"/">> \o gt \o <<"/">> >>
    ELSE IF Truthy(dt) THEN << OUTPUT_BASE \o dt \o <<"/">> >>
    ELSE IF Truthy(gt)
    THEN << OUTPUT_BASE \o <<"easy">> \o <<"/">> \o gt \o <<"/">>,
            OUTPUT_BASE \o <<"medium">> \o <<"/">> \o gt \o <<"/">>,
            OUTPUT_BASE \o <<"hard">> \o <<"/">> \o gt \o <<"/">> >>
    ELSE << OUTPUT_BASE >>

\* every key of storage is listed, whatever produced it
AllKeysUniverse ==
    << EditPromptUniverse[1], OffLayoutPrompts[1], EditPromptUniverse[2],
       OffLayoutPrompts[2], EditPromptUniverse[3], EditPromptUniverse[4],
       OffLayoutPrompts[3], EditPromptUniverse[5], EditPromptUniverse[6] >>
    \o << EditedUniverse[1], EditedUniverse[2], EditedUniverse[3], OffLayoutEdited[1],
          EditedUniverse[4], EditedUniverse[5], OffLayoutEdited[2], EditedUniverse[6] >>

EditExistingOutputs(bkt, dt, gt) ==
    LET prefixes == EditOutputScanPrefixes(dt, gt)
    IN  UNION { Range(ListKeys(AllKeysUniverse, bkt, prefixes[i])) : i \in DOMAIN prefixes }

EditScanPrefix(dt, gt) ==
    IF Truthy(dt)
    THEN IF Truthy(gt)
         THEN EDIT_PROMPTS_PREFIX \o dt \o <<"/">> \o <<"edit", "_">> \o gt \o <<"/">>
         ELSE EDIT_PROMPTS_PREFIX \o dt \o <<"/">>
    ELSE EDIT_PROMPTS_PREFIX

EditKeepPrompt(key, pt, gt) ==
    /\ EndsWith(key, DotTxt)
    /\ Truthy(pt) => InList(pt, Split(key, "/"))
    /\ Truthy(gt) => Contains(key, <<"edit", "_">> \o gt)

EditPromptFiles(bkt, dt, gt, pt) ==
    SelectSeq(ListKeys(AllKeysUniverse, bkt, EditScanPrefix(dt, gt)),
              LAMBDA key : EditKeepPrompt(key, pt, gt))

\* a process_prompt coroutine object and its local variables
NewTask(key, target_key, info) ==
    [s3_key |-> key, target_key |-> target_key, info |-> info, pc |-> "new",
     source_image |-> "None", prompt_text |-> "None", gen |-> "no", up |-> "no"]

\* the enumeration loop without its resume check
NeverDone(target_key, existing) == FALSE

\* the enumeration loop taking every target for done
AlwaysDone(target_key, existing) == TRUE

\* `if target_key in existing_outputs` of the enumeration loop
AlreadyDone(target_key, existing) == target_key \in existing

RECURSIVE EditLoop(_, _, _, _, _)
\* the loop `for key in prompt_files` from position i, with the accumulated
\* acc = [tasks, total_tasks, skipped_count]
EditLoop(keys, i, existing, dt_gt, acc) ==
    IF i > Len(keys) THEN acc
    ELSE
    LET key  == keys[i]
        info == EditParse(key)
        dt   == dt_gt[1]
        gt   == dt_gt[2]
    IN  IF ~info.ok THEN EditLoop(keys, i + 1, existing, dt_gt, acc)
        ELSE IF Truthy(dt) /\ info.difficulty # dt
        THEN EditLoop(keys, i + 1, existing, dt_gt, acc)
        ELSE IF Truthy(gt) /\ info.gender # gt
        THEN EditLoop(keys, i + 1, existing, dt_gt, acc)
        ELSE
        LET target_key == EditTargetKey(info)
        IN  IF AlreadyDone(target_key, existing)
            THEN EditLoop(keys, i + 1, existing, dt_gt,
                          [acc EXCEPT !.skipped_count = @ + 1])
            ELSE EditLoop(keys, i + 1, existing, dt_gt,
                          [acc EXCEPT !.tasks = Append(@, NewTask(key, target_key, info)),
                                      !.total_tasks = @ + 1])

EditMain_Enumerate ==
    /\ driver = "edit"
    /\ e_pc = "start"
    /\ \E resp \in env.list :
           IF resp = "error"
           THEN \* paginate() raises inside main, outside any try
                /\ e_pc' = "list_raised"
                /\ UNCHANGED <<existing_outputs, prompt_files, tasks, total_tasks,
                               skipped_count, sem>>
           ELSE
           LET existing == EditExistingOutputs(bucket, difficulty_target, gender_target)
               files    == EditPromptFiles(bucket, difficulty_target, gender_target,
                                           partition_target)
               out      == EditLoop(files, 1, existing,
                                    <<difficulty_target, gender_target>>,
                                    [tasks |-> << >>, total_tasks |-> 0,
                                     skipped_count |-> 0])
           IN  /\ existing_outputs' = existing
               /\ prompt_files' = files
               /\ tasks' = out.tasks
               /\ total_tasks' = out.total_tasks
               /\ skipped_count' = out.skipped_count
               /\ sem' = GateCapacity
               /\ e_pc' = IF out.tasks # << >> THEN "gather" ELSE "returned"
    /\ UNCHANGED <<envVars, vtonVars>>

\* ------------------------------------------------------------------------
\* edit_main.process_prompt: one action per suspension point
\* ------------------------------------------------------------------------
\* the task is scheduled and runs to its first await (download_image)
Edit_Start(i) ==
    /\ e_pc = "gather"
    /\ tasks[i].pc = "new"
    /\ tasks' = [tasks EXCEPT ![i].pc = "dl_image"]
    /\ UNCHANGED <<envVars, sem, e_pc, existing_outputs, prompt_files, total_tasks,
                   skipped_count, vtonVars>>

\* download_image returns; the task goes on to await download_text
Edit_ImageDone(i, resp) ==
    /\ e_pc = "gather"
    /\ tasks[i].pc = "dl_image"
    /\ LET r == download_image(resp)
       IN  tasks' = [tasks EXCEPT ![i] =
               IF r.exc THEN [@ EXCEPT !.pc = "raised"]
               ELSE IF r.value = "None" THEN [@ EXCEPT !.pc = "done"]
               ELSE [@ EXCEPT !.pc = "dl_text", !.source_image = r.value]]
    /\ UNCHANGED <<envVars, sem, e_pc, existing_outputs, prompt_files, total_tasks,
                   skipped_count, vtonVars>>

\* a gate that never makes a caller wait
GateAlwaysFree(value) == TRUE

\* whether the gate can be taken without waiting (Semaphore.locked() is false)
GateFree(value) == value > 0

\* download_text returns; the task skips, or enters `async with semaphore`:
\* it takes the permit at once when the gate is free and waits otherwise
Edit_TextDone(i, resp) ==
    /\ e_pc = "gather"
    /\ tasks[i].pc = "dl_text"
    /\ LET r == download_text(resp)
       IN  IF r.exc
           THEN /\ tasks' = [tasks EXCEPT ![i].pc = "raised"]
                /\ sem' = sem
           ELSE IF FalsyText(r.value)
           THEN /\ tasks' = [tasks EXCEPT ![i].pc = "done", ![i].prompt_text = r.value]
                /\ sem' = sem
           ELSE IF GateFree(sem)
           THEN /\ tasks' = [tasks EXCEPT ![i].pc = "generating",
                                          ![i].prompt_text = r.value]
                /\ sem' = sem - 1
           ELSE /\ tasks' = [tasks EXCEPT ![i].pc = "wait_gate",
                                          ![i].prompt_text = r.value]
                /\ sem' = sem
    /\ UNCHANGED <<envVars, e_pc, existing_outputs, prompt_files, total_tasks,
                   skipped_count, vtonVars>>

\* a waiter of the semaphore is woken and takes the permit
Edit_Acquire(i) ==
    /\ e_pc = "gather"
    /\ tasks[i].pc = "wait_gate"
    /\ GateFree(sem)
    /\ sem' = sem - 1
    /\ tasks' = [tasks EXCEPT ![i].pc = "generating"]
    /\ UNCHANGED <<envVars, e_pc, existing_outputs, prompt_files, total_tasks,
                   skipped_count, vtonVars>>

\* The answers the backend may still give: env.gen_ok counts the successful
\* generations left in this run.
GenAllowed(e) == {r \in e.gen : r = "ok" => e.gen_ok > 0}

SpendGen(e, resp) == IF resp = "ok" THEN [e EXCEPT !.gen_ok = @ - 1] ELSE e

\* a gate whose permit is never given back
GateKept(value) == value

\* what leaving `async with semaphore` does to the permit count
GateRelease(value) == value + 1

\* generator.generate ends; the permit is given back on both paths, then the
\* task either returns (failure) or awaits upload_edited_image
Edit_GenDone(i, resp) ==
    /\ e_pc = "gather"
    /\ tasks[i].pc = "generating"
    /\ sem' = GateRelease(sem)
    /\ env' = SpendGen(env, resp)
    /\ tasks' = [tasks EXCEPT ![i] =
           IF resp = "raise"
           THEN [@ EXCEPT !.pc = "done", !.gen = "raised"]
           ELSE [@ EXCEPT !.pc = "uploading", !.gen = "ok", !.up = "started"]]
    /\ UNCHANGED <<inputVars, e_pc, existing_outputs, prompt_files, total_tasks,
                   skipped_count, vtonVars>>

Edit_UploadDone(i, resp) ==
    /\ e_pc = "gather"
    /\ tasks[i].pc = "uploading"
    /\ LET r == upload_edited_image(resp)
       IN  tasks' = [tasks EXCEPT ![i] =
               IF r.exc THEN [@ EXCEPT !.pc = "raised", !.up = resp]
               ELSE [@ EXCEPT !.pc = "done", !.up = resp]]
    /\ UNCHANGED <<envVars, sem, e_pc, existing_outputs, prompt_files, total_tasks,
                   skipped_count, vtonVars>>

\* asyncio.gather(*tasks) ends: with the first exception of a task, or when
\* every task has returned
EditMain_GatherDone ==
    /\ e_pc = "gather"
    /\ \/ \E i \in DOMAIN tasks : tasks[i].pc = "raised"
       \/ \A i \in DOMAIN tasks : tasks[i].pc = "done"
    /\ e_pc' = IF \E i \in DOMAIN tasks : tasks[i].pc = "raised"
               THEN "raised" ELSE "returned"
    /\ UNCHANGED <<envVars, sem, existing_outputs, prompt_files, tasks, total_tasks,
                   skipped_count, vtonVars>>

\* the steps of the event loop while main awaits asyncio.gather(*tasks)
EditGatherStep ==
    \/ \E i \in DOMAIN tasks : Edit_Start(i)
    \/ \E i \in DOMAIN tasks : \E resp \in env.image : Edit_ImageDone(i, resp)
    \/ \E i \in DOMAIN tasks : \E resp \in env.text : Edit_TextDone(i, resp)
    \/ \E i \in DOMAIN tasks : Edit_Acquire(i)
    \/ \E i \in DOMAIN tasks : \E resp \in GenAllowed(env) : Edit_GenDone(i, resp)
    \/ \E i \in DOMAIN tasks : \E resp \in env.put : Edit_UploadDone(i, resp)
    \/ EditMain_GatherDone

EditNext == EditMain_Enumerate \/ EditGatherStep

\* ------------------------------------------------------------------------
\* vton_main.py: output keys and manifest entry of one package
\* ------------------------------------------------------------------------
VTON_PROMPT == "A person wearing this cloth"

S3Uri(key) == <<"s3", ":", "/", "/", "bucket", "/">> \o key

TryOnKey(info) ==
    OUTPUT_ULTIMATE_BASE \o info.difficulty \o <<"/">> \o info.gender
        \o <<"/", "try", "_", "on", "_", "image", "/">> \o info.stem \o <<"_", "vton">> \o DotPng

InitialKey(info) ==
    OUTPUT_ULTIMATE_BASE \o info.difficulty \o <<"/">> \o info.gender
        \o <<"/", "initial", "_", "image", "/">> \o info.stem \o <<"_", "person">> \o DotPng

ClothOutKey(info, cloth_key_s3) ==
    OUTPUT_ULTIMATE_BASE \o info.difficulty \o <<"/">> \o info.gender
        \o <<"/", "cloth", "_", "image", "/">> \o info.stem \o <<"_", "cloth", "_">>
        \o Basename(cloth_key_s3)

ManifestEntry(info, cloth_key_s3) ==
    [initial_image |-> S3Uri(InitialKey(info)),
     cloth_image   |-> S3Uri(ClothOutKey(info, cloth_key_s3)),
     try_on_image  |-> S3Uri(TryOnKey(info))]

\* prompt_key of download_worker for a cloth key
ClothPromptKey(cloth_key) ==
    SplitextRoot(Replace(cloth_key, <<"/", "image", "s", "/">>, <<"/", "prompts", "/">>))
        \o DotTxt

\* ------------------------------------------------------------------------
\* vton_main.main, up to the await of asyncio.gather
\* ------------------------------------------------------------------------
\* asyncio.Queue(maxsize=10)
QueueMaxSize == 10

\* a backlog that overfills the queue: two more person images than it holds
BacklogPersons == [i \in 1..(QueueMaxSize + 2) |-> NumberedPersonKey(19 + i)]

VtonUniverse ==
    EditPromptUniverse \o <<EditedUniverse[1]>> \o BacklogPersons
        \o <<EditedUniverse[2], EditedUniverse[3], OffLayoutEdited[1]>>
        \o SubSeq(EditedUniverse, 4, Len(EditedUniverse)) \o ClothesUniverse

get_clothes_list(bkt, gender) ==
    SelectSeq(ListKeys(VtonUniverse, bkt,
                       CLOTHES_BASE \o gender \o <<"/", "image", "s", "/">>),
              LAMBDA key : \/ EndsWith(key, DotPng)
                           \/ EndsWith(key, <<".", "jpg">>)
                           \/ EndsWith(key, <<".", "jpeg">>))

\* the person scan over the whole base prefix, whatever the filters
ScanWholeBase(dt, gt) == EDITED_IMAGES_BASE

VtonScanPrefix(dt, gt) == EDITED_IMAGES_BASE \o Fmt(dt) \o <<"/">> \o Fmt(gt) \o <<"/">>

\* the person filter without its extension test
KeepAnyExtension(key, pt) == ~(Truthy(pt) /\ ~Contains(key, pt))

VtonKeepPerson(key, pt) ==
    /\ EndsWith(key, DotPng)
    /\ ~(Truthy(pt) /\ ~Contains(key, pt))

VtonPersonFiles(bkt, dt, gt, pt) ==
    SelectSeq(ListKeys(VtonUniverse, bkt, VtonScanPrefix(dt, gt)),
              LAMBDA key : VtonKeepPerson(key, pt))

\* a queue created without maxsize is never full
NeverFull(q) == FALSE

QueueFull(q) == Len(q) >= QueueMaxSize

Sentinel == [kind |-> "None"]

VtonMain_Start ==
    /\ driver = "vton"
    /\ v_pc = "start"
    /\ IF ~Truthy(gender_target)
       THEN /\ v_pc' = "returned"
            /\ UNCHANGED <<clothes_list, person_files, p_pc, c_pc, sem>>
       ELSE /\ clothes_list' = get_clothes_list(bucket, gender_target)
            /\ person_files' = VtonPersonFiles(bucket, difficulty_target, gender_target,
                                               partition_target)
            /\ sem' = GateCapacity
            /\ p_pc' = "new"
            /\ c_pc' = "new"
            /\ v_pc' = "pipeline"
    /\ UNCHANGED <<envVars, editVars, queue, p_idx, p_pkg, c_pkg, c_seq, ups,
                   upload_tasks, c_gather, jsonl_buffer, manifest, fetch_log, enqueued,
                   gen_log>>

\* ------------------------------------------------------------------------
\* vton_main.download_worker (producer)
\* ------------------------------------------------------------------------
\* position of a key in listing order: Python's str order on the keys
KeyRank(key) == CHOOSE i \in DOMAIN VtonUniverse : VtonUniverse[i] = key

\* a backlog that lists every key a second time
KeysTwice(keys) == keys \o keys

\* list.sort(reverse=True)
SortKeysDescending(keys) ==
    LET after(i) == {j \in DOMAIN keys :
                        \/ KeyRank(keys[j]) > KeyRank(keys[i])
                        \/ KeyRank(keys[j]) = KeyRank(keys[i]) /\ j < i}
    IN  [k \in 1..Len(keys) |->
            keys[CHOOSE i \in DOMAIN keys : Cardinality(after(i)) = k - 1]]

\* list.sort(): the key at position k is the one with k - 1 keys before it
SortKeys(keys) ==
    LET before(i) == {j \in DOMAIN keys :
                         \/ KeyRank(keys[j]) < KeyRank(keys[i])
                         \/ KeyRank(keys[j]) = KeyRank(keys[i]) /\ j < i}
    IN  [k \in 1..Len(keys) |->
            keys[CHOOSE i \in DOMAIN keys : Cardinality(before(i)) = k - 1]]

\* download_worker with `return` in place of `break`: the empty-clothes exit
\* leaves without the final put
ReturnOnNoClothes(files, clothes, idx, q, cloth) ==
    IF idx <= Len(files) /\ clothes = << >>
    THEN [pc |-> "done", idx |-> idx, pkg |-> Sentinel, queue |-> q]
    ELSE IF idx > Len(files)
    THEN IF QueueFull(q)
         THEN [pc |-> "put_sentinel", idx |-> idx, pkg |-> Sentinel, queue |-> q]
         ELSE [pc |-> "done", idx |-> idx, pkg |-> Sentinel, queue |-> Append(q, Sentinel)]
    ELSE IF ~VtonParse(files[idx]).ok
    THEN [pc |-> "raised", idx |-> idx, pkg |-> Sentinel, queue |-> q]
    ELSE [pc |-> "downloading", idx |-> idx,
          pkg |-> [kind |-> "fetch", person_key |-> files[idx], cloth_key |-> cloth],
          queue |-> q]

\* The producer arrives at the head of `for person_key in person_files` for
\* position idx with queue q, and runs to its next suspension point: the await
\* of the three downloads, a put on a full queue, or its return.
ProducerLoop(files, clothes, idx, q, cloth) ==
    IF idx > Len(files) \/ clothes = << >>
    THEN \* loop over or `break`: await queue.put(None)
         IF QueueFull(q)
         THEN [pc |-> "put_sentinel", idx |-> idx, pkg |-> Sentinel, queue |-> q]
         ELSE [pc |-> "done", idx |-> idx, pkg |-> Sentinel, queue |-> Append(q, Sentinel)]
    ELSE IF ~VtonParse(files[idx]).ok
    THEN \* info["stem"] on None
         [pc |-> "raised", idx |-> idx, pkg |-> Sentinel, queue |-> q]
    ELSE [pc |-> "downloading", idx |-> idx,
          pkg |-> [kind |-> "fetch", person_key |-> files[idx], cloth_key |-> cloth],
          queue |-> q]

\* random.choice(clothes_list) draws from the list; with an empty list nothing
\* is drawn
ClothChoices(clothes) == IF clothes = << >> THEN {None} ELSE Range(clothes)

Producer_Start(cloth) ==
    /\ v_pc = "pipeline"
    /\ p_pc = "new"
    /\ LET files == SortKeys(person_files)
           nxt   == ProducerLoop(files, clothes_list, 1, queue, cloth)
       IN  /\ person_files' = files
           /\ p_pc' = nxt.pc
           /\ p_idx' = nxt.idx
           /\ p_pkg' = nxt.pkg
           /\ queue' = nxt.queue
    /\ UNCHANGED <<envVars, sem, editVars, v_pc, clothes_list, c_pc, c_pkg, c_seq, ups,
                   upload_tasks, c_gather, jsonl_buffer, manifest, fetch_log, enqueued,
                   gen_log>>

\* the skip test without its person_img operand
ClothMissing(person_img, cloth_img) == cloth_img = "None"

\* `if person_img is None or cloth_img is None: continue`
InputMissing(person_img, cloth_img) == person_img = "None" \/ cloth_img = "None"

\* the package carries whatever download_text returned
FetchedPrompt(prompt_text) == prompt_text

\* the prompt the package carries: the default when the cloth prompt is missing
PackagePrompt(prompt_text) == IF FalsyText(prompt_text) THEN VTON_PROMPT ELSE prompt_text

\* asyncio.gather of the three downloads returns; the item is skipped or put
Producer_DownloadsDone(rp, rc, rt, cloth) ==
    /\ v_pc = "pipeline"
    /\ p_pc = "downloading"
    /\ LET person_img  == download_image(rp)
           cloth_img   == download_image(rc)
           prompt_text == download_text(rt)
           pkg == [kind |-> "pkg", person_key |-> p_pkg.person_key,
                   cloth_key |-> p_pkg.cloth_key, info |-> VtonParse(p_pkg.person_key),
                   person_img |-> person_img.value, cloth_img |-> cloth_img.value,
                   prompt_text |-> PackagePrompt(prompt_text.value)]
       IN  /\ fetch_log' = Append(fetch_log,
                                   [person_key |-> p_pkg.person_key,
                                    person_img |-> person_img.value,
                                    cloth_img |-> cloth_img.value,
                                    prompt_text |-> prompt_text.value])
           /\ IF person_img.exc \/ cloth_img.exc \/ prompt_text.exc
              THEN /\ p_pc' = "raised"
                   /\ UNCHANGED <<p_idx, p_pkg, queue, enqueued>>
              ELSE IF InputMissing(person_img.value, cloth_img.value)
              THEN LET nxt == ProducerLoop(person_files, clothes_list, p_idx + 1, queue,
                                           cloth)
                   IN  /\ p_pc' = nxt.pc
                       /\ p_idx' = nxt.idx
                       /\ p_pkg' = nxt.pkg
                       /\ queue' = nxt.queue
                       /\ UNCHANGED enqueued
              ELSE IF QueueFull(queue)
              THEN /\ p_pc' = "putting"
                   /\ p_pkg' = pkg
                   /\ UNCHANGED <<p_idx, queue, enqueued>>
              ELSE LET nxt == ProducerLoop(person_files, clothes_list, p_idx + 1,
                                           Append(queue, pkg), cloth)
                   IN  /\ p_pc' = nxt.pc
                       /\ p_idx' = nxt.idx
                       /\ p_pkg' = nxt.pkg
                       /\ queue' = nxt.queue
                       /\ enqueued' = Append(enqueued, pkg.person_key)
    /\ UNCHANGED <<envVars, sem, editVars, v_pc, clothes_list, person_files, c_pc, c_pkg,
                   c_seq, ups, upload_tasks, c_gather, jsonl_buffer, manifest, gen_log>>

\* a put that waited on the full queue goes through
Producer_PutUnblocked(cloth) ==
    /\ v_pc = "pipeline"
    /\ p_pc = "putting"
    /\ ~QueueFull(queue)
    /\ LET nxt == ProducerLoop(person_files, clothes_list, p_idx + 1,
                               Append(queue, p_pkg), cloth)
       IN  /\ p_pc' = nxt.pc
           /\ p_idx' = nxt.idx
           /\ p_pkg' = nxt.pkg
           /\ queue' = nxt.queue
           /\ enqueued' = Append(enqueued, p_pkg.person_key)
    /\ UNCHANGED <<envVars, sem, editVars, v_pc, clothes_list, person_files, c_pc, c_pkg,
                   c_seq, ups, upload_tasks, c_gather, jsonl_buffer, manifest, fetch_log,
                   gen_log>>

Producer_SentinelUnblocked ==
    /\ v_pc = "pipeline"
    /\ p_pc = "put_sentinel"
    /\ ~QueueFull(queue)
    /\ queue' = Append(queue, Sentinel)
    /\ p_pc' = "done"
    /\ UNCHANGED <<envVars, sem, editVars, v_pc, clothes_list, person_files, p_idx, p_pkg,
                   c_pc, c_pkg, c_seq, ups, upload_tasks, c_gather, jsonl_buffer, manifest,
                   fetch_log, enqueued, gen_log>>

\* ------------------------------------------------------------------------
\* vton_main.gpu_worker (consumer) and the upload tasks it creates
\* ------------------------------------------------------------------------
\* a consumer that awaits the uploads it tracks before it takes the next item
GetAfterUploads(q, sm, tracking, pkg) ==
    IF tracking # {}
    THEN [pc |-> "drain", queue |-> q, sem |-> sm, pkg |-> pkg, gather |-> tracking]
    ELSE IF q = << >>
    THEN [pc |-> "get", queue |-> q, sem |-> sm, pkg |-> pkg, gather |-> {}]
    ELSE IF Head(q).kind = "None"
    THEN [pc |-> "done", queue |-> Tail(q), sem |-> sm, pkg |-> pkg, gather |-> {}]
    ELSE [pc |-> "generating", queue |-> Tail(q), sem |-> sm - 1, pkg |-> Head(q),
          gather |-> {}]

\* The consumer arrives at `await queue.get()` with queue q, permit count sm
\* and tracking set tracking, and runs to its next suspension point: an empty
\* queue, the generation call, the final gather, or its return.
ConsumerGet(q, sm, tracking, pkg) ==
    IF q = << >>
    THEN [pc |-> "get", queue |-> q, sem |-> sm, pkg |-> pkg, gather |-> {}]
    ELSE IF Head(q).kind = "None"
    THEN \* queue.task_done(); break; if upload_tasks: await asyncio.gather(...)
         [pc |-> IF tracking # {} THEN "drain" ELSE "done",
          queue |-> Tail(q), sem |-> sm, pkg |-> pkg, gather |-> tracking]
    ELSE \* async with semaphore: await asyncio.to_thread(generator.generate, ...)
         IF GateFree(sm)
         THEN [pc |-> "generating", queue |-> Tail(q), sem |-> sm - 1, pkg |-> Head(q),
               gather |-> {}]
         ELSE [pc |-> "wait_gate", queue |-> Tail(q), sem |-> sm, pkg |-> Head(q),
               gather |-> {}]

Consumer_Start ==
    /\ v_pc = "pipeline"
    /\ c_pc = "new"
    /\ LET nxt == ConsumerGet(queue, sem, upload_tasks, c_pkg)
       IN  /\ c_pc' = nxt.pc
           /\ queue' = nxt.queue
           /\ sem' = nxt.sem
           /\ c_pkg' = nxt.pkg
           /\ c_gather' = nxt.gather
    /\ UNCHANGED <<envVars, editVars, v_pc, clothes_list, person_files, p_pc, p_idx, p_pkg,
                   c_seq, ups, upload_tasks, jsonl_buffer, manifest, fetch_log, enqueued,
                   gen_log>>

\* queue.get() that waited on the empty queue returns
Consumer_Get ==
    /\ v_pc = "pipeline"
    /\ c_pc = "get"
    /\ queue # << >>
    /\ LET nxt == ConsumerGet(queue, sem, upload_tasks, c_pkg)
       IN  /\ c_pc' = nxt.pc
           /\ queue' = nxt.queue
           /\ sem' = nxt.sem
           /\ c_pkg' = nxt.pkg
           /\ c_gather' = nxt.gather
    /\ UNCHANGED <<envVars, editVars, v_pc, clothes_list, person_files, p_pc, p_idx, p_pkg,
                   c_seq, ups, upload_tasks, jsonl_buffer, manifest, fetch_log, enqueued,
                   gen_log>>

UploadKinds == {"try_on", "initial", "cloth"}

\* the triplet named after the package's sequence number instead of its stem
SeqNamedUploads(seq, pkg) ==
    [id \in {<<seq, k>> : k \in UploadKinds} |->
        [key   |-> IF id[2] = "try_on"
                   THEN TryOnKey([pkg.info EXCEPT !.stem = <<Digit(seq)>>])
                   ELSE IF id[2] = "initial"
                   THEN InitialKey([pkg.info EXCEPT !.stem = <<Digit(seq)>>])
                   ELSE ClothOutKey([pkg.info EXCEPT !.stem = <<Digit(seq)>>],
                                    pkg.cloth_key),
         state |-> "pending",
         person_key |-> pkg.person_key]]

\* the three upload tasks created for the package pkg, as
\* id -> [key, state, person_key]
NewUploads(seq, pkg) ==
    [id \in {<<seq, k>> : k \in UploadKinds} |->
        [key   |-> IF id[2] = "try_on" THEN TryOnKey(pkg.info)
                   ELSE IF id[2] = "initial" THEN InitialKey(pkg.info)
                   ELSE ClothOutKey(pkg.info, pkg.cloth_key),
         state |-> "pending",
         person_key |-> pkg.person_key]]

\* the triplet is created whatever the generation call did (no `continue`)
UploadsAlways(resp, seq, pkg) == NewUploads(seq, pkg)

\* the upload tasks the consumer creates after the generation call: none
\* when it raised (`continue`), the triplet otherwise
UploadsFor(resp, seq, pkg) == IF resp = "raise" THEN << >> ELSE NewUploads(seq, pkg)

\* an entry appended whatever the generation call did
EntriesAlways(resp, pkg) == << ManifestEntry(pkg.info, pkg.cloth_key) >>

\* the manifest entries appended after the generation call
EntriesFor(resp, pkg) ==
    IF resp = "raise" THEN << >> ELSE << ManifestEntry(pkg.info, pkg.cloth_key) >>

\* generator.generate ends.  The permit is given back on both paths.  On a
\* failure the consumer goes to the next queue.get(); on success it creates
\* the three upload tasks, tracks them, appends the manifest entry and goes to
\* the next queue.get().
Consumer_GenDone(resp) ==
    /\ v_pc = "pipeline"
    /\ c_pc = "generating"
    /\ env' = SpendGen(env, resp)
    /\ gen_log' = Append(gen_log, [person_key |-> c_pkg.person_key,
                                    cloth_key |-> c_pkg.cloth_key,
                                    prompt_text |-> c_pkg.prompt_text,
                                    outcome |-> resp])
    /\ LET created  == UploadsFor(resp, c_seq + 1, c_pkg)
           tracking == upload_tasks \cup DOMAIN created
           nxt      == ConsumerGet(queue, GateRelease(sem), tracking, c_pkg)
       IN  /\ ups' = created @@ ups
           /\ upload_tasks' = tracking
           /\ c_seq' = IF resp = "raise" THEN c_seq ELSE c_seq + 1
           /\ jsonl_buffer' = jsonl_buffer \o EntriesFor(resp, c_pkg)
           /\ c_pc' = nxt.pc
           /\ queue' = nxt.queue
           /\ sem' = nxt.sem
           /\ c_pkg' = nxt.pkg
           /\ c_gather' = nxt.gather
    /\ UNCHANGED <<inputVars, editVars, v_pc, clothes_list, person_files, p_pc, p_idx,
                   p_pkg, manifest, fetch_log, enqueued>>

\* an upload task ends: upload_edited_image returned (or raised)
Upload_Done(t, resp) ==
    /\ v_pc = "pipeline"
    /\ t \in DOMAIN ups
    /\ ups[t].state = "pending"
    /\ ups' = [ups EXCEPT ![t].state =
                  IF upload_edited_image(resp).exc THEN "raised" ELSE "done"]
    /\ UNCHANGED <<envVars, sem, editVars, v_pc, clothes_list, person_files, queue, p_pc,
                   p_idx, p_pkg, c_pc, c_pkg, c_seq, upload_tasks, c_gather,
                   jsonl_buffer, manifest, fetch_log, enqueued, gen_log>>

\* when the done-callback upload_tasks.discard may run for a task
CallbackReady(state) == state # "pending"

\* the done-callback of an ended upload task removes it from the tracking set
Upload_Callback(t) ==
    /\ v_pc = "pipeline"
    /\ t \in upload_tasks
    /\ CallbackReady(ups[t].state)
    /\ upload_tasks' = upload_tasks \ {t}
    /\ UNCHANGED <<envVars, sem, editVars, v_pc, clothes_list, person_files, queue, p_pc,
                   p_idx, p_pkg, c_pc, c_pkg, c_seq, ups, c_gather, jsonl_buffer,
                   manifest, fetch_log, enqueued, gen_log>>

\* a gpu_worker that does not await its upload tasks
DrainSkipped(awaited, u) == TRUE

\* when `await asyncio.gather(*upload_tasks)` of gpu_worker returns
DrainComplete(awaited, u) == \A t \in awaited : u[t].state # "pending"

\* the final asyncio.gather of gpu_worker ends
Consumer_DrainDone ==
    /\ v_pc = "pipeline"
    /\ c_pc = "drain"
    /\ \/ \E t \in c_gather : ups[t].state = "raised"
       \/ DrainComplete(c_gather, ups)
    /\ c_pc' = IF \E t \in c_gather : ups[t].state = "raised" THEN "raised" ELSE "done"
    /\ UNCHANGED <<envVars, sem, editVars, v_pc, clothes_list, person_files, queue, p_pc,
                   p_idx, p_pkg, c_pkg, c_seq, ups, upload_tasks, c_gather, jsonl_buffer,
                   manifest, fetch_log, enqueued, gen_log>>

\* ------------------------------------------------------------------------
\* vton_main.main after asyncio.gather(p_task, c_task)
\* ------------------------------------------------------------------------
ManifestKey(dt, gt, pt) ==
    OUTPUT_ULTIMATE_BASE \o Fmt(dt) \o <<"_">> \o Fmt(gt) \o <<"_">> \o Fmt(pt)
        \o <<".", "jsonl">>

\* a teardown that cancels nothing
LeftRunning(pc) == pc

Cancel(pc) == IF pc \in {"done", "raised"} THEN pc ELSE "cancelled"

\* gather ends with the first exception of a worker (the run is torn down and
\* what still runs is cancelled), or when both workers have returned; main
\* then writes the manifest with the synchronous client and awaits its result
VtonMain_GatherDone(resp) ==
    /\ v_pc = "pipeline"
    /\ \/ p_pc = "raised"
       \/ c_pc = "raised"
       \/ p_pc = "done" /\ c_pc = "done"
    /\ IF p_pc = "raised" \/ c_pc = "raised"
       THEN /\ v_pc' = "raised"
            /\ p_pc' = Cancel(p_pc)
            /\ c_pc' = Cancel(c_pc)
            /\ ups' = [t \in DOMAIN ups |->
                          IF ups[t].state = "pending"
                          THEN [ups[t] EXCEPT !.state = "cancelled"] ELSE ups[t]]
            /\ UNCHANGED manifest
       ELSE IF jsonl_buffer # << >>
       THEN \* s3_client.upload_fileobj(...) runs, then `await` of its result
            \* (None) raises TypeError
            /\ manifest' = IF resp = "ok"
                           THEN manifest \cup
                                {[key |-> ManifestKey(difficulty_target, gender_target,
                                                      partition_target),
                                  lines |-> jsonl_buffer]}
                           ELSE manifest
            /\ v_pc' = "raised"
            /\ UNCHANGED <<p_pc, c_pc, ups>>
       ELSE /\ v_pc' = "returned"
            /\ UNCHANGED <<p_pc, c_pc, ups, manifest>>
    /\ UNCHANGED <<envVars, sem, editVars, clothes_list, person_files, queue, p_idx, p_pkg,
                   c_pkg, c_seq, upload_tasks, c_gather, jsonl_buffer, fetch_log, enqueued,
                   gen_log>>

\* a print of download_worker outside any try raises: the one at its start,
\* or the one of the next iteration after a put that had waited returned
Producer_Fault ==
    /\ v_pc = "pipeline"
    /\ "error" \in env.stdout
    /\ \/ /\ p_pc = "new"
          /\ UNCHANGED <<p_idx, queue, enqueued>>
       \/ /\ p_pc = "putting"
          /\ ~QueueFull(queue)
          /\ p_idx < Len(person_files)
          /\ p_idx' = p_idx + 1
          /\ queue' = Append(queue, p_pkg)
          /\ enqueued' = Append(enqueued, p_pkg.person_key)
    /\ p_pc' = "raised"
    /\ p_pkg' = Sentinel
    /\ UNCHANGED <<envVars, sem, editVars, v_pc, clothes_list, person_files, c_pc, c_pkg,
                   c_seq, ups, upload_tasks, c_gather, jsonl_buffer, manifest, fetch_log,
                   gen_log>>

\* a print of gpu_worker outside any try raises: the one at its start, or the
\* one of the except handler after a generate call that raised
Consumer_Fault ==
    /\ v_pc = "pipeline"
    /\ "error" \in env.stdout
    /\ \/ /\ c_pc = "new"
          /\ UNCHANGED <<sem, gen_log>>
       \/ /\ c_pc = "generating"
          /\ "raise" \in GenAllowed(env)
          /\ sem' = GateRelease(sem)
          /\ gen_log' = Append(gen_log, [person_key |-> c_pkg.person_key,
                                          cloth_key |-> c_pkg.cloth_key,
                                          prompt_text |-> c_pkg.prompt_text,
                                          outcome |-> "raise"])
    /\ c_pc' = "raised"
    /\ UNCHANGED <<envVars, editVars, v_pc, clothes_list, person_files, queue, p_pc, p_idx,
                   p_pkg, c_pkg, c_seq, ups, upload_tasks, c_gather, jsonl_buffer, manifest,
                   fetch_log, enqueued>>

VtonNext ==
    \/ VtonMain_Start
    \/ \E cloth \in ClothChoices(clothes_list) : Producer_Start(cloth)
    \/ \E rp \in env.image, rc \in env.image, rt \in env.text :
           \E cloth \in ClothChoices(clothes_list) : Producer_DownloadsDone(rp, rc, rt, cloth)
    \/ \E cloth \in ClothChoices(clothes_list) : Producer_PutUnblocked(cloth)
    \/ Producer_SentinelUnblocked
    \/ Consumer_Start
    \/ Consumer_Get
    \/ \E resp \in GenAllowed(env) : Consumer_GenDone(resp)
    \/ \E t \in DOMAIN ups : \E resp \in env.put : Upload_Done(t, resp)
    \/ \E t \in DOMAIN ups : Upload_Callback(t)
    \/ Consumer_DrainDone
    \/ \E resp \in env.put : VtonMain_GatherDone(resp)

\* the steps of a run of vton_main whose prints may raise
VtonFaultNext == VtonNext \/ Producer_Fault \/ Consumer_Fault

\* ------------------------------------------------------------------------
\* Initial states
\* ------------------------------------------------------------------------
SubsetsUpTo(S, n) == {X \in SUBSET S : Cardinality(X) <= n}

DifficultyChoices == {None, <<"easy">>}

GenderChoices == {None, FEMALE}

PartitionChoices == {None, <<"partition", "_", "0">>}

AnyAnswer(n) ==
    [image |-> ImageResponses, text |-> TextResponses, put |-> PutResponses,
     gen |-> GenResponses, gen_ok |-> n, list |-> ListResponses,
     stdout |-> {"ok"}]

\* no parser call under study
NoParse == [key |-> None, parts |-> [kind |-> "raw"], out |-> [fn |-> "none"]]

\* the values every variable has before main runs
Blank ==
    /\ sem = 0
    /\ e_pc = "start"
    /\ existing_outputs = {}
    /\ prompt_files = << >>
    /\ tasks = << >>
    /\ total_tasks = 0
    /\ skipped_count = 0
    /\ v_pc = "start"
    /\ clothes_list = << >>
    /\ person_files = << >>
    /\ queue = << >>
    /\ p_pc = "none"
    /\ p_idx = 0
    /\ p_pkg = Sentinel
    /\ c_pc = "none"
    /\ c_pkg = Sentinel
    /\ c_seq = 0
    /\ ups = << >>
    /\ upload_tasks = {}
    /\ c_gather = {}
    /\ jsonl_buffer = << >>
    /\ manifest = {}
    /\ fetch_log = << >>
    /\ enqueued = << >>
    /\ gen_log = << >>

EditInit ==
    /\ driver = "edit"
    /\ \E prompts \in SubsetsUpTo(Range(EditPromptUniverse), MaxPrompts) :
       \E outs \in SubsetsUpTo(Range(EditedUniverse), MaxExisting) :
           bucket = prompts \cup outs
    /\ difficulty_target \in DifficultyChoices
    /\ gender_target \in GenderChoices
    /\ partition_target \in PartitionChoices
    /\ env = AnyAnswer(MaxPrompts)
    /\ Blank
    /\ parse = NoParse

\* try-on outputs of an earlier run of the VTON driver
EarlierTryOns(persons) == {TryOnKey(VtonParse(k)) : k \in {x \in persons : VtonParse(x).ok}}

\* a small run: anything may fail
VtonInit ==
    /\ driver = "vton"
    /\ \E persons \in SubsetsUpTo(Range(EditedUniverse), MaxInputs) :
       \E clothes \in SubsetsUpTo(Range(ClothesUniverse), MaxInputs - Cardinality(persons)) :
       \E outs \in {{}, EarlierTryOns(persons)} :
           bucket = persons \cup clothes \cup outs
    /\ difficulty_target \in DifficultyChoices
    /\ gender_target \in GenderChoices
    /\ partition_target \in PartitionChoices
    /\ env = AnyAnswer(MaxGenOk)
    /\ Blank
    /\ parse = NoParse

\* a run where every download and every generation succeeds
VtonNominalInit ==
    /\ driver = "vton"
    /\ \E persons \in SubsetsUpTo(Range(EditedUniverse), MaxPersons) :
           /\ Cardinality(persons) = MaxPersons
           /\ bucket = persons \cup {ClothesUniverse[1]}
    /\ difficulty_target = <<"easy">>
    /\ gender_target = FEMALE
    /\ partition_target = None
    /\ env = [image |-> {"ok"}, text |-> {"ok"}, put |-> PutResponses, gen |-> {"ok"},
              gen_ok |-> MaxPersons, list |-> {"ok"}, stdout |-> {"ok"}]
    /\ Blank
    /\ parse = NoParse

\* a run where an image download or a generation may fail
VtonFlakyInit ==
    /\ driver = "vton"
    /\ \E persons \in SubsetsUpTo(Range(EditedUniverse), MaxPersons) :
           /\ Cardinality(persons) = MaxPersons
           /\ bucket = persons \cup {ClothesUniverse[1]}
    /\ difficulty_target = <<"easy">>
    /\ gender_target = FEMALE
    /\ partition_target = None
    /\ env = [image |-> ImageResponses, text |-> {"ok"}, put |-> PutResponses,
              gen |-> GenResponses, gen_ok |-> MaxGenOk, list |-> {"ok"}, stdout |-> {"ok"}]
    /\ Blank
    /\ parse = NoParse

\* a run whose backlog is larger than the queue, with the backend the driver
\* builds (ImageGenerator: every call of gpu_worker raises)
VtonBacklogInit ==
    /\ driver = "vton"
    /\ bucket = Range(BacklogPersons) \cup {ClothesUniverse[1]}
    /\ difficulty_target = <<"easy">>
    /\ gender_target = FEMALE
    /\ partition_target \in PartitionChoices
    /\ env = [image |-> {"ok"}, text |-> {"ok"}, put |-> PutResponses, gen |-> {"raise"},
              gen_ok |-> 0, list |-> {"ok"}, stdout |-> {"ok"}]
    /\ Blank
    /\ parse = NoParse

\* one person image and two clothes to draw from
VtonTwoClothesInit ==
    /\ driver = "vton"
    /\ bucket = {EditedUniverse[1], ClothesUniverse[1], ClothesUniverse[2]}
    /\ difficulty_target = <<"easy">>
    /\ gender_target = FEMALE
    /\ partition_target \in PartitionChoices
    /\ env = [image |-> {"ok"}, text |-> TextResponses, put |-> PutResponses,
              gen |-> {"ok"}, gen_ok |-> MaxGenOk, list |-> {"ok"}, stdout |-> {"ok"}]
    /\ Blank
    /\ parse = NoParse

\* a sharded run: the images of partition_1 are asked for and the bucket holds
\* images of partition_1 and of partition_10
VtonShardInit ==
    /\ driver = "vton"
    /\ bucket = {EditedUniverse[3], OffLayoutEdited[1], ClothesUniverse[1]}
    /\ difficulty_target = <<"easy">>
    /\ gender_target = FEMALE
    /\ partition_target = <<"partition", "_", "1">>
    /\ env = [image |-> {"ok"}, text |-> {"ok"}, put |-> PutResponses, gen |-> {"ok"},
              gen_ok |-> MaxPersons, list |-> {"ok"}, stdout |-> {"ok"}]
    /\ Blank
    /\ parse = NoParse

\* a run with a backlog larger than the queue, the backend the driver builds
\* and a stdout that may be closed
VtonFaultInit ==
    /\ driver = "vton"
    /\ bucket = Range(BacklogPersons) \cup {ClothesUniverse[1]}
    /\ difficulty_target = <<"easy">>
    /\ gender_target = FEMALE
    /\ partition_target = None
    /\ env = [image |-> {"ok"}, text |-> {"ok"}, put |-> PutResponses, gen |-> {"raise"},
              gen_ok |-> 0, list |-> {"ok"}, stdout |-> StdoutResponses]
    /\ Blank
    /\ parse = NoParse

\* an edit run over prompts laid out otherwise than
\* {difficulty}/edit_{gender}/{partition}/{id}_{rest}.txt, every call succeeding
EditOffLayoutInit ==
    /\ driver = "edit"
    /\ \E a, b \in Range(OffLayoutPrompts)
                        \cup {EditPromptUniverse[1], EditPromptUniverse[2]} :
       \E outs \in SUBSET {OffLayoutEdited[2]} :
           bucket = {a, b} \cup outs
    /\ difficulty_target \in DifficultyChoices
    /\ gender_target \in GenderChoices
    /\ partition_target \in PartitionChoices
    /\ env = [image |-> {"ok"}, text |-> {"ok"}, put |-> PutResponses, gen |-> {"ok"},
              gen_ok |-> MaxPrompts, list |-> {"ok"}, stdout |-> {"ok"}]
    /\ Blank
    /\ parse = NoParse

\* ------------------------------------------------------------------------
\* The two key parsers, called on their own
\* ------------------------------------------------------------------------
\* dataset/edit_prompts/{c}/{gdir}/{p}/{id}_{rest}.txt
ComposedKey(q) ==
    EDIT_PROMPTS_PREFIX \o q.c \o <<"/">> \o q.gdir \o <<"/">> \o q.p \o <<"/">>
        \o q.id \o <<"_">> \o q.rest \o DotTxt

ComposedParts ==
    [kind : {"composed"},
     c    : {<<"easy">>, <<"hard">>},
     gdir : {<<"edit", "_", "fe", "male">>, <<"edit", "_", "male">>, <<"fe", "male">>,
             <<"edit", "_", "other">>},
     p    : {<<"partition", "_", "0">>, <<"old", "_", "partition">>, <<"batch", "_", "1">>},
     id   : {<<"1", "0", "4", "4">>, <<"7">>, << >>},
     rest : {<<"3", "_", "edit">>, <<"edit">>, <<"0", ".", "5">>}]

\* keys of other shapes: the stored keys of both drivers and a few short ones
RawKeys ==
    Range(EditPromptUniverse) \cup Range(EditedUniverse) \cup Range(ClothesUniverse)
        \cup {<<"1", ".", "png">>,
              <<"edit", "ed", "_", "image", "s", "/", "1", ".", "png">>,
              <<"backup", "/", "easy", "/", "fe", "male", "/", "7", "_", "partition", "_",
                "0", "_", "0", "_", "edit", ".", "png">>,
              <<"edit", "ed", "_", "image", "s", "/", "easy", "/", "fe", "male", "/", "7",
                ".", "jpg">>}

ParseInit ==
    /\ driver = "parse"
    /\ bucket = {}
    /\ difficulty_target = None
    /\ gender_target = None
    /\ partition_target = None
    /\ env = AnyAnswer(0)
    /\ Blank
    /\ \/ \E q \in ComposedParts :
              parse = [key |-> ComposedKey(q), parts |-> q, out |-> [fn |-> "none"]]
       \/ \E k \in RawKeys :
              parse = [key |-> k, parts |-> [kind |-> "raw"], out |-> [fn |-> "none"]]

\* edit_main.parse_s3_key_info(key), then main's target_key for its result
Parse_Edit ==
    /\ driver = "parse"
    /\ parse.out.fn = "none"
    /\ parse' = [parse EXCEPT !.out =
                     [fn |-> "edit", info |-> EditParse(parse.key),
                      target |-> IF EditParse(parse.key).ok
                                 THEN EditTargetKey(EditParse(parse.key))
                                 ELSE None]]
    /\ UNCHANGED <<driver, bucket, difficulty_target, gender_target, partition_target,
                   env, sem, editVars, vtonVars>>

\* vton_main.parse_s3_key_info(key)
Parse_Vton ==
    /\ driver = "parse"
    /\ parse.out.fn = "none"
    /\ parse' = [parse EXCEPT !.out = [fn |-> "vton", info |-> VtonParse(parse.key)]]
    /\ UNCHANGED <<driver, bucket, difficulty_target, gender_target, partition_target,
                   env, sem, editVars, vtonVars>>

ParseNext == Parse_Edit \/ Parse_Vton

vars == <<envVars, sem, editVars, vtonVars>>

Init ==
    EditInit \/ VtonInit \/ VtonNominalInit \/ VtonFlakyInit \/ VtonBacklogInit
        \/ VtonTwoClothesInit \/ VtonShardInit \/ EditOffLayoutInit \/ ParseInit

Next == EditNext \/ VtonNext \/ ParseNext

Spec == Init /\ [][Next]_vars

EditRuns == EditInit \/ EditOffLayoutInit

SpecEdit == EditRuns /\ [][EditNext]_vars

SpecParse == ParseInit /\ [][ParseNext]_vars

VtonRuns ==
    \/ VtonInit \/ VtonNominalInit \/ VtonFlakyInit \/ VtonBacklogInit
    \/ VtonTwoClothesInit \/ VtonShardInit

SpecVton == VtonRuns /\ [][VtonNext]_vars

\* The event loop runs every task that is ready, and every storage call and
\* every generate call returns: each step of main, of download_worker, of
\* gpu_worker and of an upload task that stays possible is eventually taken.
VtonFairness ==
    /\ WF_vars(VtonMain_Start)
    /\ WF_vars(\E cloth \in ClothChoices(clothes_list) : Producer_Start(cloth))
    /\ WF_vars(\E rp \in env.image, rc \in env.image, rt \in env.text :
                   \E cloth \in ClothChoices(clothes_list) :
                       Producer_DownloadsDone(rp, rc, rt, cloth))
    /\ WF_vars(\E cloth \in ClothChoices(clothes_list) : Producer_PutUnblocked(cloth))
    /\ WF_vars(Producer_SentinelUnblocked)
    /\ WF_vars(Consumer_Start)
    /\ WF_vars(Consumer_Get)
    /\ WF_vars(\E resp \in GenAllowed(env) : Consumer_GenDone(resp))
    /\ WF_vars(\E t \in DOMAIN ups : \E resp \in env.put : Upload_Done(t, resp))
    /\ WF_vars(\E t \in DOMAIN ups : Upload_Callback(t))
    /\ WF_vars(Consumer_DrainDone)
    /\ WF_vars(\E resp \in env.put : VtonMain_GatherDone(resp))

SpecVtonFair ==
    /\ VtonRuns
    /\ [][VtonNext]_vars
    /\ VtonFairness

\* runs of vton_main over the backlog, the two clothes and the two shards, a
\* closed stdout included, under the same scheduling
SpecVtonFault ==
    /\ VtonBacklogInit \/ VtonTwoClothesInit \/ VtonShardInit \/ VtonFaultInit
    /\ [][VtonFaultNext]_vars
    /\ VtonFairness

\* ------------------------------------------------------------------------
\* Properties
\* ------------------------------------------------------------------------
\* the calls of generator.generate that have started and not yet ended
GenInProgress ==
    Cardinality({i \in DOMAIN tasks : tasks[i].pc = "generating"})
        + (IF c_pc = "generating" THEN 1 ELSE 0)

\* C1: with the gate created with capacity 1, at most one call of
\* generator.generate is in progress in any reachable state, among the
\* process_prompt tasks of the edit driver and in gpu_worker of the VTON driver.
C1_MutualExclusion == GateCapacity = 1 => GenInProgress <= 1

\* a task generates while another one, its inputs fetched, waits for the gate
C1_Contention ==
    \E i, j \in DOMAIN tasks : tasks[i].pc = "generating" /\ tasks[j].pc = "wait_gate"

PendingUploads == {t \in DOMAIN ups : ups[t].state = "pending"}

\* C2: gpu_worker has not returned, and main has neither written the manifest
\* nor ended, while an upload task gpu_worker created is still pending; and a
\* pending upload task is always in the tracking set.
C2_DrainGuarantee ==
    /\ c_pc = "done" => PendingUploads = {}
    /\ v_pc \in {"returned", "raised"} => PendingUploads = {}
    /\ manifest # {} => PendingUploads = {}
    /\ PendingUploads \subseteq upload_tasks

\* gpu_worker returned after awaiting upload tasks that were still tracked when
\* it saw the sentinel
C2_Drained ==
    /\ c_pc = "done"
    /\ c_gather # {}
    /\ \A t \in c_gather : ups[t].state = "done"

\* C3: in the edit driver no process_prompt task exists for a prompt key whose
\* target_key is in existing_outputs, so nothing is downloaded, generated or
\* uploaded for it.
C3_ResumeSkips ==
    e_pc # "start" =>
        /\ \A i \in DOMAIN tasks :
               EditTargetKey(EditParse(tasks[i].s3_key)) \notin existing_outputs
        /\ \A n \in DOMAIN prompt_files :
               (/\ EditParse(prompt_files[n]).ok
                /\ EditTargetKey(EditParse(prompt_files[n])) \in existing_outputs)
               => \A i \in DOMAIN tasks : tasks[i].s3_key # prompt_files[n]

\* a run that skipped an item already done and uploaded the output of another
C3_SkippedAndWorked ==
    /\ e_pc = "returned"
    /\ skipped_count >= 1
    /\ \E i \in DOMAIN tasks : tasks[i].up = "ok"

\* C4: in the VTON driver a person image whose try-on output key is in storage
\* when the run starts is never enqueued by download_worker and never
\* generated.
C4_VtonResume ==
    /\ \A i \in DOMAIN enqueued : TryOnKey(VtonParse(enqueued[i])) \notin bucket
    /\ \A i \in DOMAIN gen_log : TryOnKey(VtonParse(gen_log[i].person_key)) \notin bucket

\* the packages on the producer side: those in the queue and the one
\* download_worker is assembling or blocked putting
PackagesHeld ==
    Cardinality({i \in DOMAIN queue : queue[i].kind = "pkg"})
        + (IF p_pc \in {"downloading", "putting"} THEN 1 ELSE 0)

\* C5: in the VTON driver the producer side never holds more than
\* QueueMaxSize + 1 packages, whatever the size of the backlog.
C5_Backpressure == PackagesHeld <= QueueMaxSize + 1

\* the queue is full and download_worker is blocked putting one more package,
\* with person images still to come
C5_ProducerBlocked ==
    /\ p_pc = "putting"
    /\ PackagesHeld = QueueMaxSize + 1
    /\ p_idx < Len(person_files)

\* the process_prompt tasks with a download in flight
Fetching == {i \in DOMAIN tasks : tasks[i].pc \in {"dl_image", "dl_text"}}

\* the process_prompt tasks that hold their downloaded inputs and wait for
\* the gate
HeldForGate == {i \in DOMAIN tasks : tasks[i].pc = "wait_gate"}

\* C6: in the edit driver the fetches of two different items never overlap,
\* and the number of items that hold their downloaded inputs while they wait
\* for the gate stays within a fixed capacity (the driver's only fixed
\* capacity is the gate's).
C6_EditThrottle ==
    /\ Cardinality(Fetching) <= 1
    /\ Cardinality(HeldForGate) <= GateCapacity

\* the person keys whose generation call raised
FailedGenerations ==
    {gen_log[i].person_key : i \in {j \in DOMAIN gen_log : gen_log[j].outcome = "raise"}}

\* the gate exists: main has created the semaphore
GateCreated == e_pc \in {"gather", "returned", "raised"} \/ v_pc = "pipeline"

C7_State ==
    /\ GateCreated => sem = GateCapacity - GenInProgress
    /\ \A t \in DOMAIN ups : ups[t].person_key \notin FailedGenerations
    /\ \A k \in FailedGenerations : \A n \in DOMAIN jsonl_buffer :
           jsonl_buffer[n].try_on_image # S3Uri(TryOnKey(VtonParse(k)))
    /\ c_pc # "raised"
    /\ \A i \in DOMAIN tasks :
           tasks[i].gen = "raised" => tasks[i].up = "no" /\ tasks[i].pc = "done"

C7_Step ==
    /\ (Len(gen_log') > Len(gen_log) /\ gen_log'[Len(gen_log')].outcome = "raise")
       => /\ ups' = ups
          /\ upload_tasks' = upload_tasks
          /\ jsonl_buffer' = jsonl_buffer
          /\ c_pc' \in {"get", "generating", "drain", "done"}
          /\ c_pc' = "generating" => c_pkg' = Head(queue)
          /\ sem' = GateCapacity - GenInProgress'
    /\ \A i \in DOMAIN tasks :
           (tasks[i].pc = "generating" /\ tasks'[i].gen = "raised")
           => /\ sem' = sem + 1
              /\ tasks'[i].pc = "done"
              /\ e_pc' = "gather"
              /\ \A j \in DOMAIN tasks : j # i => tasks'[j] = tasks[j]

\* C7: when generator.generate raises for an item the permit is given back,
\* no upload task and no manifest entry is created for the item, and the
\* work goes on: gpu_worker loops to its next queue.get, and in the edit
\* driver the other tasks are untouched and find the gate free.
C7_GenerationFailure == []C7_State /\ [][C7_Step]_vars

\* gpu_worker generated an item after the generation of an earlier one raised
C7_ContinuedAfterFailure ==
    \E i, j \in DOMAIN gen_log :
        i < j /\ gen_log[i].outcome = "raise" /\ gen_log[j].outcome = "ok"

\* the person keys whose person-image download returned None
AbsentPersons ==
    {fetch_log[i].person_key :
        i \in {j \in DOMAIN fetch_log : fetch_log[j].person_img = "None"}}

\* the person key is in a package: in the queue, in download_worker's blocked
\* put, or in gpu_worker's hands
InPackage(k) ==
    \/ \E n \in DOMAIN enqueued : enqueued[n] = k
    \/ \E n \in DOMAIN queue : queue[n].kind = "pkg" /\ queue[n].person_key = k
    \/ p_pc = "putting" /\ p_pkg.person_key = k
    \/ c_pc \in {"generating", "wait_gate"} /\ c_pkg.person_key = k

C8_State ==
    /\ \A k \in AbsentPersons :
           /\ ~InPackage(k)
           /\ \A n \in DOMAIN gen_log : gen_log[n].person_key # k
           /\ \A t \in DOMAIN ups : ups[t].person_key # k
    /\ p_pc # "raised"
    /\ \A i \in DOMAIN tasks :
           (tasks[i].pc \notin {"new", "dl_image"} /\ tasks[i].source_image = "None")
           => /\ tasks[i].pc = "done"
              /\ tasks[i].prompt_text = "None"
              /\ tasks[i].gen = "no"
              /\ tasks[i].up = "no"
    /\ e_pc # "raised"

C8_Step ==
    /\ (Len(fetch_log') > Len(fetch_log) /\ fetch_log'[Len(fetch_log')].person_img = "None")
       => /\ queue' \in {queue, Append(queue, Sentinel)}
          /\ p_idx' = p_idx + 1
          /\ p_pc' \in {"downloading", "put_sentinel", "done"}
          /\ p_pc' = "downloading" <=> p_idx < Len(person_files)
          /\ p_pc' = "downloading" => p_pkg'.person_key = person_files[p_idx + 1]
    /\ \A i \in DOMAIN tasks :
           (tasks[i].pc = "dl_image" /\ tasks'[i].pc = "done")
           => /\ e_pc' = "gather"
              /\ \A j \in DOMAIN tasks : j # i => tasks'[j] = tasks[j]

\* C8: an item whose source (person) image download returns None never gets
\* a package, a generate call or an upload, and the work goes on with the
\* next candidate: download_worker moves to the next person key, and in the
\* edit driver the task returns and the other tasks are untouched.
C8_SourceAbsent == []C8_State /\ [][C8_Step]_vars

\* download_worker dropped a person whose image was absent and enqueued a
\* later one
C8_SkippedThenEnqueued ==
    \E i, j \in DOMAIN fetch_log :
        /\ i < j
        /\ fetch_log[i].person_img = "None"
        /\ \E n \in DOMAIN enqueued : enqueued[n] = fetch_log[j].person_key

\* the edit driver: a task whose prompt text is None or empty generates nothing
EditPromptRule ==
    \A i \in DOMAIN tasks :
        FalsyText(tasks[i].prompt_text)
        => /\ tasks[i].pc \in {"new", "dl_image", "dl_text", "done"}
           /\ tasks[i].gen = "no"
           /\ tasks[i].up = "no"

\* what the three downloads of person key k returned
FetchOf(k) == fetch_log[CHOOSE n \in DOMAIN fetch_log : fetch_log[n].person_key = k]

C10_EditNeverRaises ==
    /\ \A i \in DOMAIN tasks : tasks[i].pc # "raised"
    /\ e_pc # "raised"
    /\ e_pc = "returned" => \A i \in DOMAIN tasks : tasks[i].pc = "done"
    /\ e_pc = "gather" => ENABLED EditGatherStep

\* main returned from a run with a failed download, a failed generation and
\* a failed upload
C10_ReturnedAfterFailures ==
    /\ e_pc = "returned"
    /\ \E i \in DOMAIN tasks : tasks[i].source_image = "None"
    /\ \E i \in DOMAIN tasks : tasks[i].gen = "raised"
    /\ \E i \in DOMAIN tasks : tasks[i].up = "error"

\* the one blob main is to write: named from the filters, one line per entry
ManifestBlob ==
    [key   |-> ManifestKey(difficulty_target, gender_target, partition_target),
     lines |-> jsonl_buffer]

\* C11: in the VTON driver main writes the manifest only after both workers
\* have completed; when a generation succeeded and the blob is stored it is
\* the single blob dataset_ultimate/{difficulty}_{gender}_{partition}.jsonl
\* holding the entries in append order, and main then returns normally; when
\* no generation succeeded no blob is written and main returns.
C11_ManifestFlush ==
    /\ manifest # {} => p_pc = "done" /\ c_pc = "done"
    /\ manifest # {} => manifest = {ManifestBlob} /\ jsonl_buffer # << >>
    /\ manifest # {} => v_pc = "returned"
    /\ (v_pc \in {"returned", "raised"} /\ jsonl_buffer = << >>)
       => manifest = {} /\ v_pc = "returned"

\* both workers have completed: the sentinel was put and taken, and every
\* upload task gpu_worker created has ended
PipelineDrained ==
    /\ p_pc = "done"
    /\ c_pc = "done"
    /\ queue = << >>
    /\ PendingUploads = {}

\* C12: once main has started the two workers, and with every storage call
\* and every generate call returning and every ready task being run, the
\* pipeline of the VTON driver ends: download_worker puts the sentinel,
\* gpu_worker takes it and drains its uploads, and both complete, whatever
\* the size of the backlog.
C12_NoDeadlock == (v_pc = "pipeline") ~> PipelineDrained

\* a backlog larger than the queue went through the pipeline
C12_BacklogDrained ==
    /\ PipelineDrained
    /\ Len(person_files) > QueueMaxSize
    /\ Len(gen_log) = Len(person_files)

\* ------------------------------------------------------------------------
\* The end-of-work marker
\* ------------------------------------------------------------------------
SentinelPositions == {i \in DOMAIN queue : queue[i].kind = "None"}

ConsumerSawSentinel == c_pc \in {"drain", "done"}

\* sentinels put so far: those still queued and the one the consumer took
SentinelsPut == Cardinality(SentinelPositions) + (IF ConsumerSawSentinel THEN 1 ELSE 0)

C13_State ==
    /\ SentinelsPut <= 1
    /\ p_pc = "done" <=> SentinelsPut = 1
    /\ \A i \in SentinelPositions : i = Len(queue)
    /\ ConsumerSawSentinel => queue = << >>

C13_Step ==
    /\ p_pc = "done" => enqueued' = enqueued /\ Len(queue') <= Len(queue)
    /\ ConsumerSawSentinel => queue' = queue /\ c_pkg' = c_pkg /\ gen_log' = gen_log

\* C13: download_worker puts exactly one sentinel on the queue, behind every
\* package it enqueued, on each of its normal exits (empty backlog, every item
\* skipped, the empty-clothes break), and puts nothing after it; gpu_worker
\* dequeues nothing and generates nothing once it has taken the sentinel.
C13_OneSentinelLast == []C13_State /\ [][C13_Step]_vars

\* the producer left through the empty-clothes break and the consumer took the
\* sentinel it put
C13_BreakThenSentinel ==
    /\ driver = "vton"
    /\ person_files # << >>
    /\ clothes_list = << >>
    /\ p_pc = "done"
    /\ c_pc = "done"
    /\ enqueued = << >>

\* ------------------------------------------------------------------------
\* Order of the VTON pipeline
\* ------------------------------------------------------------------------
Ascending(keys) ==
    \A i, j \in DOMAIN keys : i < j => KeyRank(keys[i]) < KeyRank(keys[j])

PersonKeys(log) == [i \in DOMAIN log |-> log[i].person_key]

\* the fetched items that download_worker did not skip
NotSkipped == SelectSeq(fetch_log, LAMBDA f : ~(f.person_img = "None" \/ f.cloth_img = "None"))

Generated == SelectSeq(gen_log, LAMBDA g : g.outcome # "raise")

IsPrefix(a, b) == Len(a) <= Len(b) /\ \A i \in DOMAIN a : a[i] = b[i]

\* C14: in the VTON driver the packages are enqueued in ascending order of the
\* person keys, skipped items left out; the generation calls are made in
\* enqueue order, and the manifest entries are appended in that same order.
C14_FifoOrder ==
    /\ Ascending(PersonKeys(fetch_log))
    /\ Range(PersonKeys(fetch_log)) \subseteq Range(person_files)
    /\ IsPrefix(enqueued, PersonKeys(NotSkipped))
    /\ Len(PersonKeys(NotSkipped)) <= Len(enqueued) + 1
    /\ p_pc = "done" => enqueued = PersonKeys(NotSkipped)
    /\ (p_pc = "done" /\ clothes_list # << >>)
           => Range(PersonKeys(fetch_log)) = Range(person_files)
    /\ IsPrefix(PersonKeys(gen_log), enqueued)
    /\ Len(jsonl_buffer) = Len(Generated)
    /\ \A i \in DOMAIN jsonl_buffer :
           jsonl_buffer[i] = ManifestEntry(VtonParse(Generated[i].person_key),
                                           Generated[i].cloth_key)

\* two items went through the queue and two manifest entries were appended
C14_TwoInOrder ==
    /\ Len(enqueued) = 2
    /\ Len(jsonl_buffer) = 2
    /\ jsonl_buffer[1] # jsonl_buffer[2]

\* ------------------------------------------------------------------------
\* Filters
\* ------------------------------------------------------------------------
\* an absent filter accepts every value of its axis
Wild(target, value) == ~Truthy(target) \/ value = target

\* the prompt keys the filters select, an absent filter selecting everything
EditSelected ==
    {k \in bucket :
        /\ EditParse(k).ok
        /\ Wild(difficulty_target, EditParse(k).difficulty)
        /\ Wild(gender_target, EditParse(k).gender)
        /\ Wild(partition_target, EditParse(k).partition)}

\* the person images the filters select, an absent filter selecting everything
VtonSelected ==
    {k \in bucket :
        /\ StartsWith(k, EDITED_IMAGES_BASE)
        /\ VtonParse(k).ok
        /\ Wild(difficulty_target, VtonParse(k).difficulty)
        /\ Wild(gender_target, VtonParse(k).gender)
        /\ Wild(partition_target, VtonParse(k).partition)}

\* the prompt keys the enumeration loop counted as skipped or made a task of
EditEnumerated ==
    {tasks[i].s3_key : i \in DOMAIN tasks}
        \cup {k \in Range(prompt_files) :
                 /\ EditParse(k).ok
                 /\ Wild(difficulty_target, EditParse(k).difficulty)
                 /\ Wild(gender_target, EditParse(k).gender)
                 /\ EditTargetKey(EditParse(k)) \in existing_outputs}

\* edit_main.main is past its enumeration loop
EditEnumerationDone == driver = "edit" /\ e_pc \in {"gather", "returned", "raised"}

C15_EditFilters == EditEnumerationDone => EditEnumerated = EditSelected

\* C15 as claimed: in both drivers every filter is optional and an absent
\* filter selects all values of its axis; vton_main.main with gender_target or
\* difficulty_target absent still enumerates the items of every gender or
\* difficulty, as edit_main.main does.
C15_AllFiltersOptional ==
    /\ C15_EditFilters
    /\ (driver = "vton" /\ v_pc # "start") => Range(person_files) = VtonSelected

\* what the difficulty and gender filters select, whatever the partition
EditAnyPartition ==
    {k \in bucket :
        /\ EditParse(k).ok
        /\ Wild(difficulty_target, EditParse(k).difficulty)
        /\ Wild(gender_target, EditParse(k).gender)}

VtonAnyPartition ==
    {k \in bucket :
        /\ StartsWith(k, EDITED_IMAGES_BASE)
        /\ VtonParse(k).ok
        /\ Wild(difficulty_target, VtonParse(k).difficulty)
        /\ Wild(gender_target, VtonParse(k).gender)}

\* without a partition filter exactly the selected keys are found; with one,
\* the keys of that partition are found and nothing of another difficulty or
\* gender
Enumerates(found, selected, widest) ==
    IF Truthy(partition_target)
    THEN selected \subseteq found /\ found \subseteq widest
    ELSE found = selected

EditTaskKeys(created) == {created[i].s3_key : i \in DOMAIN created}

\* the steps of the two mains that list and filter, and what later steps keep
C15_Step ==
    /\ (driver = "edit" /\ e_pc = "start" /\ e_pc' \in {"gather", "returned"})
       => Enumerates(EditEnumerated', EditSelected, EditAnyPartition)
    /\ EditEnumerationDone
       => /\ UNCHANGED <<prompt_files, existing_outputs, bucket>>
          /\ EditTaskKeys(tasks') = EditTaskKeys(tasks)
    /\ (driver = "vton" /\ v_pc = "start")
       => IF ~Truthy(gender_target)
          THEN v_pc' = "returned" /\ person_files' = << >> /\ clothes_list' = << >>
          ELSE IF ~Truthy(difficulty_target)
          THEN v_pc' = "pipeline" /\ person_files' = << >>
          ELSE /\ v_pc' = "pipeline"
               /\ Enumerates(Range(person_files'), VtonSelected, VtonAnyPartition)
    /\ (driver = "vton" /\ v_pc # "start")
       => Range(person_files') = Range(person_files) /\ bucket' = bucket

\* a VTON run without a gender never leaves main's first step
C15_State ==
    (driver = "vton" /\ ~Truthy(gender_target) /\ v_pc # "start")
    => /\ v_pc = "returned"
       /\ fetch_log = << >> /\ gen_log = << >> /\ manifest = {}

\* C15 as the code has it: in edit_main.main every filter is optional and an
\* absent one selects all values; in vton_main.main only the partition filter
\* is: without a gender main returns before it lists or processes anything,
\* and without a difficulty it scans edited_images/None/{gender}/ and
\* enumerates no item of any difficulty.
C15_VtonNeedsGenderAndDifficulty == []C15_State /\ [][C15_Step]_vars

\* a VTON run without a partition filter that fetched items of two partitions
C15_EveryPartition ==
    /\ driver = "vton"
    /\ ~Truthy(partition_target)
    /\ Len(fetch_log) = 2
    /\ VtonParse(fetch_log[1].person_key).partition
           # VtonParse(fetch_log[2].person_key).partition

\* ------------------------------------------------------------------------
\* Scenario E: both filters given to the edit driver
\* ------------------------------------------------------------------------
NarrowOutputPrefix ==
    OUTPUT_BASE \o difficulty_target \o <<"/">> \o gender_target \o <<"/">>

NarrowPromptPrefix ==
    EDIT_PROMPTS_PREFIX \o difficulty_target \o <<"/", "edit", "_">> \o gender_target
        \o <<"/">>

\* C16: in the edit driver with a difficulty filter d and a gender filter g,
\* the resume index holds exactly the stored keys under edited_images/{d}/{g}/
\* and the prompt scan yields only keys under dataset/edit_prompts/{d}/edit_{g}/;
\* no key of another difficulty or gender is listed, indexed or made a task.
C16_NarrowScan ==
    (EditEnumerationDone /\ Truthy(difficulty_target) /\ Truthy(gender_target))
    => /\ existing_outputs = {k \in bucket : StartsWith(k, NarrowOutputPrefix)}
       /\ \A i \in DOMAIN prompt_files : StartsWith(prompt_files[i], NarrowPromptPrefix)
       /\ \A i \in DOMAIN tasks :
              /\ StartsWith(tasks[i].s3_key, NarrowPromptPrefix)
              /\ StartsWith(tasks[i].target_key, NarrowOutputPrefix)
              /\ tasks[i].info.difficulty = difficulty_target
              /\ tasks[i].info.gender = gender_target

\* both filters given, with an edited image and a prompt of another
\* difficulty or gender in storage, and a task made for a matching prompt
C16_OthersInStorage ==
    /\ EditEnumerationDone
    /\ Truthy(difficulty_target) /\ Truthy(gender_target)
    /\ \E k \in bucket : StartsWith(k, OUTPUT_BASE) /\ ~StartsWith(k, NarrowOutputPrefix)
    /\ \E k \in bucket :
           StartsWith(k, EDIT_PROMPTS_PREFIX) /\ ~StartsWith(k, NarrowPromptPrefix)
    /\ tasks # << >>

\* ------------------------------------------------------------------------
\* Listing and existence-check errors
\* ------------------------------------------------------------------------
\* C17: a failed listing of the existing outputs, or a failed existence check,
\* counts as 'nothing exists yet': edit_main.main is not ended by the error
\* (it goes on with an empty resume index), check_exists answers False and
\* get_existing_prompts returns the empty set it had when the listing failed.
C17_ListingFailOpen ==
    /\ e_pc # "list_raised"
    /\ \A stored \in BOOLEAN : ~check_exists("error", stored)
    /\ get_existing_prompts("error", {}, Range(ClothesUniverse)) = {}

\* ------------------------------------------------------------------------
\* The key parsers
\* ------------------------------------------------------------------------
NoSlash(str) == ~Contains(str, <<"/">>)

\* the shape C18 speaks of
WellFormed(q) ==
    /\ Contains(q.gdir, FEMALE) \/ Contains(q.gdir, MALE)
    /\ Contains(q.p, <<"partition">>)
    /\ NoSlash(q.c) /\ NoSlash(q.gdir) /\ NoSlash(q.p) /\ NoSlash(q.id) /\ NoSlash(q.rest)
    /\ ~Contains(q.id, <<"_">>)

GenderOf(gdir) == IF Contains(gdir, FEMALE) THEN FEMALE ELSE MALE

ScenarioAKey ==
    <<"dataset", "/", "edit", "_", "prompts", "/", "easy", "/", "edit", "_", "fe", "male",
      "/", "partition", "_", "0", "/", "1", "0", "4", "4", "_", "3", "_", "edit", ".",
      "txt">>

ScenarioATarget ==
    <<"edit", "ed", "_", "image", "s", "/", "easy", "/", "fe", "male", "/", "1", "0", "4",
      "4", "_", "partition", "_", "0", "_", "3", "_", "edit", ".", "png">>

C19_VtonParseRejects ==
    (/\ parse.out.fn = "vton"
     /\ \/ ~StartsWith(parse.key, EDITED_IMAGES_BASE)
        \/ ~EndsWith(Basename(parse.key), DotPng))
    => ~parse.out.info.ok

\* ------------------------------------------------------------------------
\* The counters of the edit driver's enumeration loop
\* ------------------------------------------------------------------------
\* positions of the listed prompt keys that parse and pass the difficulty and
\* gender filters
Passing(files) ==
    {i \in DOMAIN files :
        /\ EditParse(files[i]).ok
        /\ Wild(difficulty_target, EditParse(files[i]).difficulty)
        /\ Wild(gender_target, EditParse(files[i]).gender)}

PassingDone(files, existing) ==
    {i \in Passing(files) : EditTargetKey(EditParse(files[i])) \in existing}

PassingPending(files, existing) ==
    {i \in Passing(files) : EditTargetKey(EditParse(files[i])) \notin existing}

CountersAgree(files, existing, created, skipped, total) ==
    /\ skipped = Cardinality(PassingDone(files, existing))
    /\ total = Cardinality(PassingPending(files, existing))
    /\ total = Len(created)
    /\ {created[i].s3_key : i \in DOMAIN created}
           = {files[i] : i \in PassingPending(files, existing)}
    /\ {created[i].s3_key : i \in DOMAIN created}
           \cap {files[i] : i \in PassingDone(files, existing)} = {}
    /\ \A i, j \in DOMAIN created : created[i].s3_key = created[j].s3_key => i = j

C20_Step ==
    /\ (driver = "edit" /\ e_pc = "start" /\ e_pc' \in {"gather", "returned"})
       => CountersAgree(prompt_files', existing_outputs', tasks', skipped_count',
                        total_tasks')
    /\ EditEnumerationDone
       => /\ UNCHANGED <<prompt_files, existing_outputs, skipped_count, total_tasks>>
          /\ Len(tasks') = Len(tasks)
          /\ \A i \in DOMAIN tasks : tasks'[i].s3_key = tasks[i].s3_key

\* C20: after the enumeration loop skipped_count is the number of prompt keys
\* that parse, pass the filters and have their target in existing_outputs,
\* total_tasks the number of those whose target is not in it, no key is
\* counted in both, and total_tasks is the number of tasks created (the loop
\* ends with these values and nothing changes them afterwards).
C20_Counters == [][C20_Step]_vars

\* an enumeration that skipped one key, made a task of another and counted a
\* third key in neither
C20_OneOfEach ==
    /\ EditEnumerationDone
    /\ skipped_count = 1
    /\ total_tasks = 1
    /\ Len(prompt_files) = 3

\* ------------------------------------------------------------------------
\* Stability of the output keys
\* ------------------------------------------------------------------------
\* the edit target of a task and the try-on and initial keys of an upload
\* triplet depend on the source key alone
KeysFromSource ==
    /\ \A i \in DOMAIN tasks :
           tasks[i].target_key = EditTargetKey(EditParse(tasks[i].s3_key))
    /\ \A t \in DOMAIN ups :
           /\ t[2] = "try_on" => ups[t].key = TryOnKey(VtonParse(ups[t].person_key))
           /\ t[2] = "initial" => ups[t].key = InitialKey(VtonParse(ups[t].person_key))

\* the clothes a run can draw for an item
Drawable == ClothChoices(clothes_list)

\* C21 as claimed: for the same source key the edit target key, and for the
\* same person key the try-on, initial and cloth output keys and the manifest
\* entry, are the same in every run: whatever cloth a run could have drawn, it
\* would have produced the keys and the entry this run produced.
C21_KeysStableAcrossRuns ==
    /\ KeysFromSource
    /\ \A t \in DOMAIN ups : \A cloth \in Drawable :
           t[2] = "cloth" => ups[t].key = ClothOutKey(VtonParse(ups[t].person_key), cloth)
    /\ \A i \in DOMAIN jsonl_buffer : \A cloth \in Drawable :
           jsonl_buffer[i] = ManifestEntry(VtonParse(Generated[i].person_key), cloth)

\* the keys a step gives to the tasks, upload tasks and manifest entries it
\* creates, and what later steps keep
C21_Step ==
    /\ IF DOMAIN tasks' # DOMAIN tasks
       THEN \A i \in DOMAIN tasks' :
                tasks'[i].target_key = EditTargetKey(EditParse(tasks'[i].s3_key))
       ELSE \A i \in DOMAIN tasks :
                /\ tasks'[i].target_key = tasks[i].target_key
                /\ tasks'[i].s3_key = tasks[i].s3_key
    /\ \A t \in DOMAIN ups' :
           IF t \in DOMAIN ups
           THEN ups'[t].key = ups[t].key /\ ups'[t].person_key = ups[t].person_key
           ELSE LET made == gen_log'[Len(gen_log')]
                    info == VtonParse(made.person_key)
                IN  /\ Len(gen_log') = Len(gen_log) + 1
                    /\ ups'[t].person_key = made.person_key
                    /\ made.cloth_key \in Drawable
                    /\ ups'[t].key = IF t[2] = "try_on" THEN TryOnKey(info)
                                     ELSE IF t[2] = "initial" THEN InitialKey(info)
                                     ELSE ClothOutKey(info, made.cloth_key)
    /\ jsonl_buffer' # jsonl_buffer =>
           LET made == gen_log'[Len(gen_log')]
           IN  /\ Len(gen_log') = Len(gen_log) + 1
               /\ jsonl_buffer' = Append(jsonl_buffer,
                                         ManifestEntry(VtonParse(made.person_key),
                                                       made.cloth_key))

\* C21 as the code has it: the edit target key, the try-on key and the initial
\* key are functions of the source key alone; the cloth output key and the
\* manifest entry are functions of the person key and of the cloth that
\* random.choice drew for it in this run.
C21_KeysStableGivenCloth == [][C21_Step]_vars

\* a cloth upload whose key would differ had the run drawn the other cloth
C21_OtherClothOtherKey ==
    \E t \in DOMAIN ups : \E cloth \in Drawable :
        /\ t[2] = "cloth"
        /\ ups[t].key # ClothOutKey(VtonParse(ups[t].person_key), cloth)
        /\ jsonl_buffer # << >>

\* ------------------------------------------------------------------------
\* The partition filter
\* ------------------------------------------------------------------------
\* C22: when a partition filter is given, every created process_prompt task has
\* info.partition equal to it, and every package put on the queue has a person
\* key whose parsed partition is equal to it.
C22_PartitionOnParsedField ==
    Truthy(partition_target) =>
        /\ \A i \in DOMAIN tasks : tasks[i].info.partition = partition_target
        /\ \A i \in DOMAIN enqueued :
               VtonParse(enqueued[i]).partition = partition_target

\* ------------------------------------------------------------------------
\* One attempt per item
\* ------------------------------------------------------------------------
NoRepeat(seq) == \A i, j \in DOMAIN seq : seq[i] = seq[j] => i = j

\* one task per prompt key; one download round, one generate call and one
\* enqueue per person key
C23_State ==
    /\ NoRepeat([i \in DOMAIN tasks |-> tasks[i].s3_key])
    /\ NoRepeat(PersonKeys(fetch_log))
    /\ NoRepeat(PersonKeys(gen_log))
    /\ NoRepeat(enqueued)
    /\ Range(PersonKeys(gen_log)) \subseteq Range(enqueued)

\* a task that made its generate call or ended its upload keeps the outcome, a
\* task that ended stays as it is; an upload task that ended stays as it is;
\* the logs of download rounds and generate calls only grow
C23_Step ==
    /\ \A i \in DOMAIN tasks :
           /\ i \in DOMAIN tasks'
           /\ tasks'[i].s3_key = tasks[i].s3_key
           /\ tasks[i].gen # "no" => tasks'[i].gen = tasks[i].gen
           /\ tasks[i].up \notin {"no", "started"} => tasks'[i].up = tasks[i].up
           /\ tasks[i].pc \in {"done", "raised"} => tasks'[i] = tasks[i]
    /\ \A t \in DOMAIN ups :
           /\ t \in DOMAIN ups'
           /\ ups[t].state # "pending" => ups'[t] = ups[t]
    /\ IsPrefix(fetch_log, fetch_log')
    /\ IsPrefix(gen_log, gen_log')
    /\ Len(gen_log') <= Len(gen_log) + 1

\* C23: within one run the generation backend is called at most once per
\* enumerated source key, and a download, generation or upload that failed
\* for an item is never attempted again, in the edit and in the VTON driver.
C23_NoSecondAttempt == []C23_State /\ [][C23_Step]_vars

\* a VTON run that ended after a skipped download round, a generate call that
\* raised and an upload that failed
C23_FailedAndOver ==
    /\ c_pc = "done"
    /\ p_pc = "done"
    /\ Len(fetch_log) > Len(enqueued)
    /\ \E i \in DOMAIN gen_log : gen_log[i].outcome = "raise"

\* ------------------------------------------------------------------------
\* Upload triplets and manifest entries
\* ------------------------------------------------------------------------
Triplet(n) == {<<n, k>> : k \in UploadKinds}

\* after each iteration: as many entries and triplets as successful
\* generations, and the n-th entry holds the URIs of the keys of the n-th triplet
C24_State ==
    /\ Len(jsonl_buffer) = Len(Generated)
    /\ DOMAIN ups = UNION {Triplet(n) : n \in 1..Len(Generated)}
    /\ \A n \in DOMAIN jsonl_buffer :
           /\ \A t \in Triplet(n) : ups[t].person_key = Generated[n].person_key
           /\ jsonl_buffer[n].try_on_image = S3Uri(ups[<<n, "try_on">>].key)
           /\ jsonl_buffer[n].initial_image = S3Uri(ups[<<n, "initial">>].key)
           /\ jsonl_buffer[n].cloth_image = S3Uri(ups[<<n, "cloth">>].key)

\* the iteration of a successful generation creates the three tasks and
\* appends the entry in one step, the tasks still pending; no other step
\* creates a task or touches the buffer, whatever the uploads do
C24_Step ==
    IF Len(Generated') > Len(Generated)
    THEN /\ DOMAIN ups' = DOMAIN ups \cup Triplet(Len(Generated'))
         /\ \A t \in Triplet(Len(Generated')) :
                t \notin DOMAIN ups /\ ups'[t].state = "pending"
         /\ Len(jsonl_buffer') = Len(jsonl_buffer) + 1
         /\ IsPrefix(jsonl_buffer, jsonl_buffer')
    ELSE /\ DOMAIN ups' = DOMAIN ups
         /\ jsonl_buffer' = jsonl_buffer
         /\ \A t \in DOMAIN ups : ups'[t].key = ups[t].key

\* C24: in the VTON consumer every successful generation creates exactly three
\* upload tasks and appends exactly one manifest entry in the same iteration,
\* before any of the three uploads has ended; the buffer is as long as the
\* number of successful generations, and each entry holds s3://{bucket}/
\* followed by the keys of its package's three upload tasks, whatever the
\* uploads do later.
C24_TripletAndEntry == []C24_State /\ [][C24_Step]_vars

\* a second entry whose three uploads are all pending, next to a first entry
\* whose uploads have all ended
C24_EntryBeforeUploads ==
    /\ Len(jsonl_buffer) = 2
    /\ \A t \in Triplet(2) : ups[t].state = "pending"
    /\ \A t \in Triplet(1) : ups[t].state # "pending"

\* ------------------------------------------------------------------------
\* Uploads and the gate
\* ------------------------------------------------------------------------
\* the items inside `async with semaphore`
GateHolders ==
    {tasks[i].s3_key : i \in {j \in DOMAIN tasks : tasks[j].pc = "generating"}}
        \cup (IF c_pc = "generating" THEN {c_pkg.person_key} ELSE {})

\* the items with a download or an upload in flight
InTransfer ==
    {tasks[i].s3_key :
        i \in {j \in DOMAIN tasks : tasks[j].pc \in {"dl_image", "dl_text", "uploading"}}}
        \cup {ups[t].person_key : t \in {u \in DOMAIN ups : ups[u].state = "pending"}}
        \cup (IF p_pc = "downloading" THEN {p_pkg.person_key} ELSE {})

\* every permit that is out is held by an item in its generate call, and no
\* such item has a download or an upload in flight
C25_State ==
    /\ (e_pc = "gather" \/ v_pc = "pipeline") =>
           sem + Cardinality(GateHolders) = GateCapacity
    /\ GateHolders \cap InTransfer = {}

\* an edit task starts its upload in the step that gives the permit back; the
\* VTON consumer, at the end of an iteration, goes on according to the queue
\* alone: it waits on an empty queue, starts the generation of the next
\* package, or leaves the loop on the sentinel, whatever its uploads do
C25_Step ==
    /\ \A i \in DOMAIN tasks :
           (tasks[i].pc # "uploading" /\ tasks'[i].pc = "uploading")
               => tasks[i].pc = "generating" /\ sem' = sem + 1
    /\ Len(gen_log') > Len(gen_log) =>
           IF queue = << >> THEN c_pc' = "get" /\ sem' = sem + 1
           ELSE IF Head(queue).kind = "None" THEN c_pc' \in {"drain", "done"}
           ELSE /\ c_pc' = "generating"
                /\ c_pkg' = Head(queue)
                /\ queue' = Tail(queue)
    /\ (c_pc = "get" /\ c_pc' # "get" /\ v_pc' = "pipeline") =>
           IF Head(queue).kind = "None" THEN c_pc' \in {"drain", "done"}
           ELSE c_pc' = "generating" /\ c_pkg' = Head(queue)

\* C25: uploads never hold up generation.  The permit of the gate is given
\* back before any upload of the item starts, no download or upload runs while
\* its own item holds the permit, and the VTON consumer takes the next package
\* and starts its generation without waiting for the uploads of the package
\* before.
C25_UploadsOffTheGate == []C25_State /\ [][C25_Step]_vars

\* the generation of the second successful package runs while the three
\* uploads of the first are all pending
C25_NextWhileUploading ==
    /\ c_pc = "generating"
    /\ Len(Generated) = 1
    /\ \A t \in Triplet(1) : ups[t].state = "pending"

\* ------------------------------------------------------------------------
\* A worker that raises
\* ------------------------------------------------------------------------
Ended == {"done", "raised", "cancelled"}

WorkerRaised == v_pc = "pipeline" /\ (p_pc = "raised" \/ c_pc = "raised")

RunAborted ==
    /\ v_pc = "raised"
    /\ p_pc \in Ended
    /\ c_pc \in Ended
    /\ \A t \in DOMAIN ups : ups[t].state # "pending"

\* C26: in the VTON driver, when download_worker or gpu_worker ends with an
\* unhandled exception, main stops awaiting and the run is aborted with the
\* surviving worker cancelled: no consumer stays blocked on queue.get() and no
\* producer stays blocked on queue.put().
C26_FailureAbortsRun == WorkerRaised ~> RunAborted

\* the consumer raised while the producer was blocked on the full queue with a
\* package in hand, and the producer ended cancelled
C26_BlockedProducerCancelled ==
    /\ v_pc = "raised"
    /\ c_pc = "raised"
    /\ p_pc = "cancelled"
    /\ Len(queue) = QueueMaxSize
    /\ p_pkg.kind = "pkg"

\* ------------------------------------------------------------------------
\* Keys that do not parse
\* ------------------------------------------------------------------------
\* the descriptors a step gives to the tasks it creates and the keys it puts
\* in person_files, and what later steps keep
C27_Step ==
    /\ IF DOMAIN tasks' # DOMAIN tasks
       THEN \A i \in DOMAIN tasks' :
                tasks'[i].info.ok /\ tasks'[i].info = EditParse(tasks'[i].s3_key)
       ELSE \A i \in DOMAIN tasks :
                tasks'[i].info = tasks[i].info /\ tasks'[i].s3_key = tasks[i].s3_key
    /\ person_files' # person_files =>
           \A i \in DOMAIN person_files' : VtonParse(person_files'[i]).ok
    /\ Len(fetch_log') > Len(fetch_log) =>
           fetch_log'[Len(fetch_log')].person_key \in Range(person_files)

\* C27: no key that fails to parse reaches a download stage.  In the edit
\* driver every task was created from a key that parses, with the descriptor
\* of that key; in the VTON driver every key of person_files parses, so
\* download_worker never subscripts a null parse result and does not end with
\* an exception.
C27_OnlyParsedKeys == [](p_pc # "raised") /\ [][C27_Step]_vars

\* the scanned prefix holds a key that does not parse, and download_worker
\* went through a non-empty backlog to its end
C27_UnparsedKeyLeftOut ==
    /\ \E k \in bucket :
           /\ StartsWith(k, VtonScanPrefix(difficulty_target, gender_target))
           /\ ~VtonParse(k).ok
    /\ person_files # << >>
    /\ p_pc = "done"
    /\ Len(fetch_log) = Len(person_files)

\* ------------------------------------------------------------------------
\* The resume scan and the targets of the enumerated prompts
\* ------------------------------------------------------------------------
UnderScannedPrefix(key) ==
    LET prefixes == EditOutputScanPrefixes(difficulty_target, gender_target)
    IN  \E i \in DOMAIN prefixes : StartsWith(key, prefixes[i])

\* C28: in the edit driver, for every combination of filters, the target key
\* of every prompt key that passes the enumeration and the post-parse filters
\* lies under one of output_scan_prefixes; if that output is in storage when
\* the run starts it is in existing_outputs and no task is created for it.
C28_TargetsUnderScannedPrefixes ==
    EditEnumerationDone =>
        \A i \in Passing(prompt_files) :
            LET target_key == EditTargetKey(EditParse(prompt_files[i]))
            IN  /\ UnderScannedPrefix(target_key)
                /\ target_key \in bucket =>
                       /\ target_key \in existing_outputs
                       /\ prompt_files[i] \notin EditTaskKeys(tasks)

\* ------------------------------------------------------------------------
\* Targets of the tasks of one run
\* ------------------------------------------------------------------------
\* C29: within one run of the edit driver no two created process_prompt tasks
\* have the same target_key.
C29_DistinctTargets == NoRepeat([i \in DOMAIN tasks |-> tasks[i].target_key])

\* ------------------------------------------------------------------------
\* From the edit driver's target key back to its fields
\* ------------------------------------------------------------------------
\* the VTON label that stands for a partition label of the edit parser
VtonLabel(partition) ==
    IF partition = <<"unknown", "_", "partition">> THEN <<"unknown">> ELSE partition

\* C30: for every task the edit driver creates, vton_main.parse_s3_key_info of
\* its target_key returns the difficulty and the gender the edit parser
\* produced and the same partition label, "unknown_partition" read as "unknown";
\* so a VTON partition filter keeps the target exactly when the edit item is
\* of that partition.
C30_TargetParsesBack ==
    \A i \in DOMAIN tasks :
        LET info == tasks[i].info
            back == VtonParse(tasks[i].target_key)
        IN  /\ back.ok
            /\ back.difficulty = info.difficulty
            /\ back.gender = info.gender
            /\ back.partition = VtonLabel(info.partition)
            /\ \A j \in DOMAIN tasks :
                   VtonKeepPerson(tasks[i].target_key, tasks[j].info.partition)
                       <=> info.partition = tasks[j].info.partition

=============================================================================
